---- MODULE Spec2Model ----
(***************************************************************************)
(* csvplus: decoding CSV records into a slice of structs and encoding a    *)
(* slice of structs as CSV records.                                        *)
(*                                                                         *)
(* A Go string is a sequence of one-character strings, so that parsing and *)
(* formatting are computed character by character.  A struct type is the   *)
(* sequence of its fields in declaration order.                            *)
(***************************************************************************)
EXTENDS Integers, Sequences, FiniteSets, TLC

VARIABLES
    withoutHeader,    \* Decoder.withoutHeader
    headerPassed,     \* Decoder.headerPassed
    input,            \* the records Decoder.csvReader has returned so far
    pc,               \* position of the caller: idle, decoding, decoded, encoded
    structType,       \* Decode: structType (element type of the slice v points to)
    fis,              \* Decode: fis
    row,              \* Decode: row
    items,            \* Decode: containerValue, the slice v points to
    decErr,           \* the value Decode returned
    withoutHeaderRow, \* Encoder.withoutHeaderRow
    encRegister,      \* Encoder.encRegister.Fields (defaultEncRegister)
    written,          \* the records handed to Encoder.csvWriter
    encErr            \* the value Encode returned

vars == <<withoutHeader, headerPassed, input, pc, structType, fis, row, items,
          decErr, withoutHeaderRow, encRegister, written, encErr>>

----------------------------------------------------------------------------
(* Bounds *)

\* most data records one Decode call reads
MaxRows == 2
\* most columns of a record
MaxCols == 2

----------------------------------------------------------------------------
(* Text *)

Digits == {"0", "1", "2", "3", "4", "5", "6", "7", "8", "9"}

DigitVal(c) ==
    CASE c = "0" -> 0 [] c = "1" -> 1 [] c = "2" -> 2 [] c = "3" -> 3
      [] c = "4" -> 4 [] c = "5" -> 5 [] c = "6" -> 6 [] c = "7" -> 7
      [] c = "8" -> 8 [] c = "9" -> 9

DigitChar(d) ==
    CASE d = 0 -> "0" [] d = 1 -> "1" [] d = 2 -> "2" [] d = 3 -> "3"
      [] d = 4 -> "4" [] d = 5 -> "5" [] d = 6 -> "6" [] d = 7 -> "7"
      [] d = 8 -> "8" [] d = 9 -> "9"

\* unicode.ToLower on the letters field names start with
ToLower(c) ==
    CASE c = "F" -> "f" [] c = "S" -> "s" [] c = "T" -> "t" [] OTHER -> c

RECURSIVE Pow(_, _)
Pow(b, n) == IF n = 0 THEN 1 ELSE b * Pow(b, n - 1)

\* value of a sequence of decimal digits
RECURSIVE DecVal(_)
DecVal(s) ==
    IF s = <<>> THEN 0
    ELSE 10 * DecVal(SubSeq(s, 1, Len(s) - 1)) + DigitVal(s[Len(s)])

\* the decimal digits of a natural number, no leading zeros
RECURSIVE NatDigits(_)
NatDigits(n) ==
    IF n < 10 THEN <<DigitChar(n)>>
    ELSE Append(NatDigits(n \div 10), DigitChar(n % 10))

\* strconv.Itoa
Itoa(n) == IF n < 0 THEN <<"-">> \o NatDigits(-n) ELSE NatDigits(n)

RECURSIVE StripZeros(_)
StripZeros(s) ==
    IF Len(s) > 1 /\ s[1] = "0" THEN StripZeros(Tail(s)) ELSE s

\* lexicographic s <= t for digit sequences of the same length
RECURSIVE DigitsLeq(_, _)
DigitsLeq(s, t) ==
    IF s = <<>> THEN TRUE
    ELSE IF DigitVal(s[1]) < DigitVal(t[1]) THEN TRUE
    ELSE IF DigitVal(s[1]) > DigitVal(t[1]) THEN FALSE
    ELSE DigitsLeq(Tail(s), Tail(t))

tFirst == <<"F", "i", "r", "s", "t">>
tfirst == <<"f", "i", "r", "s", "t">>
tSecond == <<"S", "e", "c", "o", "n", "d">>
tsecond == <<"s", "e", "c", "o", "n", "d">>
tSkip == <<"-">>
t1 == <<"1">>
t01 == <<"0", "1">>
tPlus1 == <<"+", "1">>
tMinus1 == <<"-", "1">>
t127 == <<"1", "2", "7">>
t128 == <<"1", "2", "8">>
tMinus128 == <<"-", "1", "2", "8">>
tMinus129 == <<"-", "1", "2", "9">>
t255 == <<"2", "5", "5">>
t256 == <<"2", "5", "6">>
t300 == <<"3", "0", "0">>
\* twenty nines: more than 64 bits hold
tHuge == [i \in 1..20 |-> "9"]
ta == <<"a">>
tt == <<"t">>
ttrue == <<"t", "r", "u", "e">>
tfalse == <<"f", "a", "l", "s", "e">>
tyes == <<"y", "e", "s">>
tno == <<"n", "o">>
t1p5 == <<"1", ".", "5">>
t1p50 == <<"1", ".", "5", "0">>
t10p05 == <<"1", "0", ".", "0", "5">>
tThird == <<"T", "h", "i", "r", "d">>
tthird == <<"t", "h", "i", "r", "d">>
tb == <<"b">>
t2 == <<"2">>
tf == <<"f">>
t10 == <<"1", "0">>
\* time.RFC3339
RFC3339 ==
    <<"2", "0", "0", "6", "-", "0", "1", "-", "0", "2", "T", "1", "5", ":",
      "0", "4", ":", "0", "5", "Z", "0", "7", ":", "0", "0">>
\* time.RFC3339Nano
RFC3339Nano ==
    <<"2", "0", "0", "6", "-", "0", "1", "-", "0", "2", "T", "1", "5", ":",
      "0", "4", ":", "0", "5", ".", "9", "9", "9", "9", "9", "9", "9", "9",
      "9", "Z", "0", "7", ":", "0", "0">>
\* the csvplusFormat tags that name those layouts
tagRFC3339 ==
    <<"t", "i", "m", "e", ".", "R", "F", "C", "3", "3", "3", "9">>
tagRFC3339Nano ==
    <<"t", "i", "m", "e", ".", "R", "F", "C", "3", "3", "3", "9", "N", "a",
      "n", "o">>
\* csvplusFormat tags that are layouts themselves
l2006_01 ==
    <<"2", "0", "0", "6", "-", "0", "1">>
lInvalidFormat ==
    <<"i", "n", "v", "a", "l", "i", "d", " ", "f", "o", "r", "m", "a", "t">>
\* texts of date/time columns
t2000_01 ==
    <<"2", "0", "0", "0", "-", "0", "1">>
t2000_13 ==
    <<"2", "0", "0", "0", "-", "1", "3">>
tStamp ==
    <<"2", "0", "0", "0", "-", "0", "1", "-", "0", "2", "T", "0", "3", ":",
      "0", "4", ":", "0", "5", "Z">>
tStampFrac ==
    <<"2", "0", "0", "0", "-", "0", "1", "-", "0", "2", "T", "0", "3", ":",
      "0", "4", ":", "0", "5", ".", "5", "Z">>
tStampFrac0 ==
    <<"2", "0", "0", "0", "-", "0", "1", "-", "0", "2", "T", "0", "3", ":",
      "0", "4", ":", "0", "5", ".", "5", "0", "Z">>
tStampUTCOffset ==
    <<"2", "0", "0", "0", "-", "0", "1", "-", "0", "2", "T", "0", "3", ":",
      "0", "4", ":", "0", "5", "+", "0", "0", ":", "0", "0">>
tStampOffset ==
    <<"2", "0", "0", "0", "-", "0", "1", "-", "0", "2", "T", "0", "3", ":",
      "0", "4", ":", "0", "5", "+", "0", "1", ":", "0", "0">>
tZeroStamp ==
    <<"0", "0", "0", "1", "-", "0", "1", "-", "0", "1", "T", "0", "0", ":",
      "0", "0", ":", "0", "0", "Z">>

----------------------------------------------------------------------------
(* Errors *)

\* the nil error
NoErr == [type |-> "nil", Column |-> <<>>, Row |-> 0, Value |-> <<>>, RawErr |-> <<>>]

\* an error that does not carry the row
ErrorfNoRow(msg, n) ==
    [type |-> "error", Column |-> <<>>, Row |-> 0, Value |-> <<>>, RawErr |-> msg]

\* errors.Errorf / fmt.Errorf: an error that is no UnmarhsalError; RawErr is its text
Errorf(msg, n) ==
    [type |-> "error", Column |-> <<>>, Row |-> n, Value |-> <<>>, RawErr |-> msg]

\* errors.Wrapf(err, msg): nil when err is nil, else err annotated with msg
Wrapf(err, msg) == IF err = <<>> THEN <<>> ELSE <<msg>> \o err

\* an UnmarhsalError that names the column by its index only
newUnmarshalErrorByIndex(colName, colIndex, r, value, err) ==
    [type   |-> "UnmarhsalError",
     Column |-> <<"c", "o", "l", " ", "i", "d", "x", " ">> \o Itoa(colIndex),
     Row    |-> r,
     Value  |-> value,
     RawErr |-> err]

newUnmarshalError(colName, colIndex, r, value, err) ==
    [type   |-> "UnmarhsalError",
     Column |-> IF colName = <<>>
                THEN <<"c", "o", "l", " ", "i", "d", "x", " ">> \o Itoa(colIndex)
                ELSE colName,
     Row    |-> r,
     Value  |-> value,
     RawErr |-> err]

----------------------------------------------------------------------------
(* Struct types: reflect.StructField, in declaration order *)

\* a field: its name, its csvplus tag, the kind and width of its type (of the
\* pointed-to type when Ptr), and whether it is a pointer; Format is its
\* csvplusFormat tag, empty when it has none
F(name, tag, kind, bits, ptr) ==
    [Name |-> name, Tag |-> tag, Kind |-> kind, Bits |-> bits, Ptr |-> ptr,
     Format |-> <<>>]

\* a field of type time.Time (*time.Time when ptr) with a csvplusFormat tag
FTime(name, tag, format, ptr) ==
    [Name |-> name, Tag |-> tag, Kind |-> "time", Bits |-> 0, Ptr |-> ptr,
     Format |-> format]

\* struct { First string; Second int }
T_Plain == <<F(tFirst, <<>>, "string", 0, FALSE), F(tSecond, <<>>, "int", 64, FALSE)>>
\* struct { First string `csvplus:"first"`; Second int `csvplus:"second"` }
T_Tags == <<F(tFirst, tfirst, "string", 0, FALSE), F(tSecond, tsecond, "int", 64, FALSE)>>
\* struct { First string `csvplus:"-"`; Second int }
T_Skip == <<F(tFirst, tSkip, "string", 0, FALSE), F(tSecond, <<>>, "int", 64, FALSE)>>
\* struct { First *int; Second *int `csvplus:"First"` }
T_Dup == <<F(tFirst, <<>>, "int", 64, TRUE), F(tSecond, tFirst, "int", 64, TRUE)>>
\* struct { First string; Second string `csvplus:"first"` }
T_DupLower == <<F(tFirst, <<>>, "string", 0, FALSE), F(tSecond, tfirst, "string", 0, FALSE)>>
\* struct { First string; Second string }
T_Strings == <<F(tFirst, <<>>, "string", 0, FALSE), F(tSecond, <<>>, "string", 0, FALSE)>>
\* struct { First uint8 }
T_Uint8 == <<F(tFirst, <<>>, "uint", 8, FALSE)>>
\* struct { First int8 }
T_Int8 == <<F(tFirst, <<>>, "int", 8, FALSE)>>
\* struct { First bool }
T_Bool == <<F(tFirst, <<>>, "bool", 0, FALSE)>>
\* struct { First float64 }
T_Float == <<F(tFirst, <<>>, "float", 64, FALSE)>>
\* struct { First *int }
T_PtrInt == <<F(tFirst, <<>>, "int", 64, TRUE)>>
\* struct { First YesNoBool }
T_YesNo == <<F(tFirst, <<>>, "YesNoBool", 0, FALSE)>>
\* struct { First *YesNoBool }
T_PtrYesNo == <<F(tFirst, <<>>, "YesNoBool", 0, TRUE)>>
\* struct { First []string }
T_Slice == <<F(tFirst, <<>>, "slice", 0, FALSE)>>

\* struct { First string `csvplus:"first"`; Second int `csvplus:"second"`;
\*          Third *bool `csvplus:"third"` }
T_Item ==
    <<F(tFirst, tfirst, "string", 0, FALSE), F(tSecond, tsecond, "int", 64, FALSE),
      F(tThird, tthird, "bool", 0, TRUE)>>
\* struct { First *bool }
T_PtrBool == <<F(tFirst, <<>>, "bool", 0, TRUE)>>
\* struct { First uint }
T_Uint == <<F(tFirst, <<>>, "uint", 64, FALSE)>>
\* struct { First int64 }
T_Int64 == <<F(tFirst, <<>>, "int", 64, FALSE)>>

\* struct { First time.Time `csvplusFormat:"2006-01"` }
T_TimeMonth == <<FTime(tFirst, <<>>, l2006_01, FALSE)>>
\* struct { First *time.Time `csvplusFormat:"2006-01"` }
T_PtrTimeMonth == <<FTime(tFirst, <<>>, l2006_01, TRUE)>>
\* struct { First time.Time }
T_TimeDefault == <<FTime(tFirst, <<>>, <<>>, FALSE)>>
\* struct { First time.Time `csvplusFormat:"time.RFC3339"` }
T_TimeRFC3339 == <<FTime(tFirst, <<>>, tagRFC3339, FALSE)>>
\* struct { First time.Time `csvplusFormat:"time.RFC3339Nano"` }
T_TimeRFC3339Nano == <<FTime(tFirst, <<>>, tagRFC3339Nano, FALSE)>>
\* struct { First time.Time `csvplusFormat:"invalid format"` }
T_TimeInvalid == <<FTime(tFirst, <<>>, lInvalidFormat, FALSE)>>

\* the struct types of the calls followed column by column
CallTypes ==
    {T_Item, T_PtrBool, T_Uint, T_Int64, T_YesNo, T_PtrYesNo, T_PtrInt,
     T_TimeMonth, T_PtrTimeMonth, T_TimeDefault, T_TimeRFC3339, T_TimeRFC3339Nano,
     T_TimeInvalid}

\* struct { First string `csvplus:"Third"` }
T_TagUpper == <<F(tFirst, tThird, "string", 0, FALSE)>>

StructTypes ==
    {T_Plain, T_Tags, T_Skip, T_Dup, T_DupLower, T_Strings, T_Uint8, T_Int8,
     T_Bool, T_Float, T_PtrInt, T_YesNo, T_PtrYesNo, T_Slice, T_TagUpper}

\* f.Type().String() of a field whose kind has no conversion, the pointer
\* followed
TypeString(sf) == IF sf.Kind = "slice" THEN "[]string" ELSE sf.Kind

\* st.NumField()
NumField(st) == Len(st)
\* st.Field(i), i counted from 0
Field(st, i) == st[i + 1]

----------------------------------------------------------------------------
(* structinfo: getFieldInfo *)

\* a fieldInfo that never marks the field as skipped
FieldInfoNoSkip(name, fieldIndex, colName, colIndex, format, skipField) ==
    [Name |-> name, FieldIndex |-> fieldIndex, ColName |-> colName,
     ColIndex |-> colIndex, Format |-> format, SkipField |-> FALSE]

\* fieldInfo
FieldInfo(name, fieldIndex, colName, colIndex, format, skipField) ==
    [Name |-> name, FieldIndex |-> fieldIndex, ColName |-> colName,
     ColIndex |-> colIndex, Format |-> format, SkipField |-> skipField]

\* a headersMap that keeps the first column of each text
headersMapFirst(header) ==
    [h \in {header[i] : i \in 1..Len(header)} |->
        (CHOOSE i \in 1..Len(header) :
            header[i] = h /\ \A j \in 1..(i - 1) : header[j] # h) - 1]

\* headersMap: the index of each text of the first record; a later column
\* with the same text overwrites an earlier one
headersMap(header) ==
    [h \in {header[i] : i \in 1..Len(header)} |->
        (CHOOSE i \in 1..Len(header) :
            header[i] = h /\ \A j \in (i + 1)..Len(header) : header[j] # h) - 1]

\* the field's name with its first character lower-cased
lowerName(name) == <<ToLower(name[1])>> \o Tail(name)

\* skipCount when the loop reaches field i: the fields before it tagged "-"
skipCount(st, i) == Cardinality({j \in 0..(i - 1) : Field(st, j).Tag = tSkip})

\* a getTimeFormat that takes the two aliases for layouts
getTimeFormatNoAlias(sf) ==
    IF sf.Kind = "time"
    THEN IF sf.Format = <<>> THEN RFC3339 ELSE sf.Format
    ELSE <<>>

\* getTimeFormat: the csvplusFormat tag of a time.Time or *time.Time field,
\* RFC3339 when it has none, the layouts the two aliases name; empty for a
\* field of another type
getTimeFormat(sf) ==
    IF sf.Kind = "time"
    THEN IF sf.Format \in {<<>>, tagRFC3339} THEN RFC3339
         ELSE IF sf.Format = tagRFC3339Nano THEN RFC3339Nano
         ELSE sf.Format
    ELSE <<>>

\* one pass of the loop over the struct's fields: kept is FALSE where the code
\* continues before fieldCounts is touched, fi is the fieldInfo otherwise
fieldPass(st, noHeader, header, i) ==
    LET sf  == Field(st, i)
        hm  == headersMap(header)
        tag == sf.Tag
        low == lowerName(sf.Name)
        fmt == getTimeFormat(sf)
    IN  IF tag = <<>> THEN
            IF sf.Name \in DOMAIN hm THEN
                [kept |-> TRUE,
                 fi |-> FieldInfo(sf.Name, i, IF noHeader THEN Itoa(i) ELSE sf.Name,
                                  hm[sf.Name], fmt, FALSE)]
            ELSE IF low \in DOMAIN hm THEN
                [kept |-> TRUE, fi |-> FieldInfo(sf.Name, i, low, hm[low], fmt, FALSE)]
            ELSE IF noHeader THEN
                [kept |-> TRUE,
                 fi |-> FieldInfo(sf.Name, i, Itoa(i), i - skipCount(st, i), fmt, FALSE)]
            ELSE [kept |-> FALSE, fi |-> FieldInfo(sf.Name, i, <<>>, 0, <<>>, FALSE)]
        ELSE IF tag = tSkip THEN
            [kept |-> TRUE, fi |-> FieldInfo(sf.Name, i, tSkip, 0, fmt, TRUE)]
        ELSE IF tag \in DOMAIN hm THEN
            [kept |-> TRUE, fi |-> FieldInfo(sf.Name, i, tag, hm[tag], fmt, FALSE)]
        ELSE [kept |-> FALSE, fi |-> FieldInfo(sf.Name, i, tag, 0, <<>>, FALSE)]

\* the fields that reach fieldCounts[fi.ColName]++
countedFields(st, noHeader, header) ==
    {i \in 0..(NumField(st) - 1) : fieldPass(st, noHeader, header, i).kept}

\* fieldCounts[colName]
fieldCounts(st, noHeader, header, colName) ==
    Cardinality({i \in countedFields(st, noHeader, header) :
                    fieldPass(st, noHeader, header, i).fi.ColName = colName})

\* ColNameToFieldInfo[colName]: the last field stored under that name
ColNameToFieldInfo(st, noHeader, header, colName) ==
    LET is == {i \in countedFields(st, noHeader, header) :
                  fieldPass(st, noHeader, header, i).fi.ColName = colName}
        last == CHOOSE i \in is : \A j \in is : j <= i
    IN  fieldPass(st, noHeader, header, last).fi

\* a getFieldInfo that keeps a column name however many fields share it
ignoreColNameNever(seenCount) == FALSE

\* the test of the second loop: a column name several fields map to is ignored
ignoreColName(seenCount) == seenCount > 1

\* the fieldInfo values of fieldsToStore
fieldsToStore(st, noHeader, header) ==
    LET names == {fieldPass(st, noHeader, header, i).fi.ColName :
                     i \in countedFields(st, noHeader, header)}
    IN  {ColNameToFieldInfo(st, noHeader, header, c) :
            c \in {n \in names : ~ignoreColName(fieldCounts(st, noHeader, header, n))}}

\* every order of the elements of a finite set
Orders(S) ==
    {s \in [1..Cardinality(S) -> S] : \A x \in S : \E i \in DOMAIN s : s[i] = x}

\* getFieldInfo: the slices it can return.  fieldsToStore is filled by ranging
\* over the map fieldCounts, whose iteration order Go leaves unspecified, so the
\* result is the surviving fields in any order
getFieldInfo(st, noHeader, header) == Orders(fieldsToStore(st, noHeader, header))

----------------------------------------------------------------------------
(* strconv and reflect: the conversions unmarshalRecord and Encode call *)

\* 2^64 - 1 and 2^63 in decimal digits: what ParseUint and ParseInt compare with
MaxUint64Digits ==
    <<"1", "8", "4", "4", "6", "7", "4", "4", "0", "7",
      "3", "7", "0", "9", "5", "5", "1", "6", "1", "5">>
Int64CutoffDigits ==
    <<"9", "2", "2", "3", "3", "7", "2", "0", "3", "6",
      "8", "5", "4", "7", "7", "5", "8", "0", "8">>

\* ds <= limit as numbers, both sequences of decimal digits
NumLeq(ds, limit) ==
    LET s == StripZeros(ds)
    IN  \/ Len(s) < Len(limit)
        \/ Len(s) = Len(limit) /\ DigitsLeq(s, limit)

AllDigits(s) == \A i \in 1..Len(s) : s[i] \in Digits

\* a parse result: the value and the error (<<>> is nil)
Parsed(n, err) == [n |-> n, err |-> err]

\* strconv.ParseUint(s, 10, 64).  The value is computed for the texts the model
\* reads, all below 2^31
ParseUint(s) ==
    IF s = <<>> \/ ~AllDigits(s) THEN Parsed(0, <<"ErrSyntax">>)
    ELSE IF ~NumLeq(s, MaxUint64Digits) THEN Parsed(0, <<"ErrRange">>)
    ELSE Parsed(DecVal(s), <<>>)

\* strconv.ParseInt(s, 10, 64)
ParseInt(s) ==
    IF s = <<>> THEN Parsed(0, <<"ErrSyntax">>)
    ELSE LET neg  == s[1] = "-"
             rest == IF s[1] \in {"+", "-"} THEN Tail(s) ELSE s
             un   == ParseUint(rest)
         IN  IF un.err # <<>> THEN Parsed(0, un.err)
             ELSE IF ~neg /\ NumLeq(Int64CutoffDigits, rest) THEN Parsed(0, <<"ErrRange">>)
             ELSE IF neg /\ ~NumLeq(rest, Int64CutoffDigits) THEN Parsed(0, <<"ErrRange">>)
             ELSE Parsed(IF neg THEN -un.n ELSE un.n, <<>>)

\* a ParseBool that reads the words true and false only
ParseBoolWords(s) ==
    IF s = ttrue THEN Parsed(1, <<>>)
    ELSE IF s = tfalse THEN Parsed(0, <<>>)
    ELSE Parsed(0, <<"ErrSyntax">>)

\* strconv.ParseBool
ParseBool(s) ==
    IF s \in {<<"1">>, <<"t">>, <<"T">>, <<"T", "R", "U", "E">>, ttrue,
              <<"T", "r", "u", "e">>} THEN Parsed(1, <<>>)
    ELSE IF s \in {<<"0">>, <<"f">>, <<"F">>, <<"F", "A", "L", "S", "E">>, tfalse,
                   <<"F", "a", "l", "s", "e">>} THEN Parsed(0, <<>>)
    ELSE Parsed(0, <<"ErrSyntax">>)

\* a FormatBool that writes the short spellings ParseBool also reads
FormatBoolShort(n) == IF n = 1 THEN tt ELSE <<"f">>

\* strconv.FormatBool
FormatBool(n) == IF n = 1 THEN ttrue ELSE tfalse

\* a float64 that is a short decimal: n / 10^e, with no trailing zero in n when e > 0
RECURSIVE NormDec(_, _)
NormDec(n, e) ==
    IF e > 0 /\ n % 10 = 0 THEN NormDec(n \div 10, e - 1) ELSE [n |-> n, e |-> e]

\* strconv.ParseFloat(s, 64) on decimal texts: an optional sign, digits, at most
\* one point.  (Exponents, hex floats, inf, nan and a negative zero are not among
\* the texts the model reads.)
ParseFloat(s) ==
    LET body   == IF s # <<>> /\ s[1] \in {"+", "-"} THEN Tail(s) ELSE s
        points == {i \in 1..Len(body) : body[i] = "."}
        digs   == SelectSeq(body, LAMBDA c : c # ".")
        e      == IF points = {} THEN 0 ELSE Len(body) - (CHOOSE i \in points : TRUE)
    IN  IF digs = <<>> \/ ~AllDigits(digs) \/ Cardinality(points) > 1
        THEN [n |-> 0, e |-> 0, err |-> <<"ErrSyntax">>]
        ELSE LET m == DecVal(digs)
                 v == NormDec(m, e)
             IN  [n |-> IF s[1] = "-" THEN -v.n ELSE v.n, e |-> v.e, err |-> <<>>]

\* digits of n, at least w of them
RECURSIVE PadDigits(_, _)
PadDigits(ds, w) == IF Len(ds) < w THEN PadDigits(<<"0">> \o ds, w) ELSE ds

\* strconv.FormatFloat(f, 'f', -1, 64): the shortest decimal, no exponent
FormatFloat(n, e) ==
    LET a    == IF n < 0 THEN -n ELSE n
        sign == IF n < 0 THEN <<"-">> ELSE <<>>
    IN  IF e = 0 THEN sign \o NatDigits(a)
        ELSE sign \o NatDigits(a \div Pow(10, e)) \o <<".">>
                  \o PadDigits(NatDigits(a % Pow(10, e)), e)

\* reflect.Value.OverflowInt for a field of the given width
OverflowInt(bits, x) ==
    IF bits = 64 THEN FALSE
    ELSE x < -Pow(2, bits - 1) \/ x > Pow(2, bits - 1) - 1

\* a conversion without the overflow check
OverflowUintUnchecked(bits, x) == FALSE

\* reflect.Value.OverflowUint
OverflowUint(bits, x) ==
    IF bits = 64 THEN FALSE ELSE x > Pow(2, bits) - 1

\* reflect.Value.SetInt: the value is stored in the field's width
SetInt(bits, x) ==
    IF bits = 64 THEN x
    ELSE ((x + Pow(2, bits - 1)) % Pow(2, bits)) - Pow(2, bits - 1)

\* reflect.Value.SetUint
SetUint(bits, x) == IF bits = 64 THEN x ELSE x % Pow(2, bits)

\* YesNoBool.UnmarshalCSV on a non-nil receiver
UnmarshalCSV(s) ==
    IF s = tyes THEN Parsed(1, <<>>)
    ELSE IF s = tno THEN Parsed(0, <<>>)
    ELSE Parsed(0, <<"unable to convert to bool">>)

\* YesNoBool.MarshalCSV: no for a nil receiver or false, yes otherwise
MarshalCSV(isNil, n) == IF isNil \/ n = 0 THEN tno ELSE tyes

\* f.Kind(), after a pointer was dereferenced: the kind of YesNoBool is bool
Kind(sf) == IF sf.Kind = "YesNoBool" THEN "bool" ELSE sf.Kind

\* a Decoder that never looks for the hook
ImplementsUnmarshalerNever(sf) == FALSE

\* f.Type().Implements(csvUnmarshalerType), or reflect.PtrTo(f.Type()) does
ImplementsUnmarshaler(sf) == sf.Kind = "YesNoBool"

\* an Encoder that never looks for the hook
ImplementsMarshalerNever(sf) == FALSE

\* fv.Type().Implements(csvMarshalerType), or reflect.PtrTo(fv.Type()) does
ImplementsMarshaler(sf) == sf.Kind = "YesNoBool"

----------------------------------------------------------------------------
(* time: time.Parse and Time.Format, for layouts made of the chunks 2006, *)
(* 01, 02, 15, 04, 05, .999999999 and Z07:00 and of literal text         *)

\* the chunks recognised, longest first
StdChunks ==
    <<(<<".", "9", "9", "9", "9", "9", "9", "9", "9", "9">>),
      <<"Z", "0", "7", ":", "0", "0">>,
      <<"2", "0", "0", "6">>,
      <<"0", "1">>, <<"0", "2">>, <<"1", "5">>, <<"0", "4">>, <<"0", "5">>>>

stdFracSecond9 == StdChunks[1]
stdISO8601ColonTZ == StdChunks[2]
stdLongYear == StdChunks[3]
stdZeroMonth == StdChunks[4]
stdZeroDay == StdChunks[5]
stdHour == StdChunks[6]
stdZeroMinute == StdChunks[7]
stdZeroSecond == StdChunks[8]

HasPrefix(s, p) == Len(s) >= Len(p) /\ SubSeq(s, 1, Len(p)) = p
Drop(s, n) == SubSeq(s, n + 1, Len(s))
isDigit(s, i) == i <= Len(s) /\ s[i] \in Digits

\* the chunk the layout starts with, empty when it starts with literal text
StdAt(layout) ==
    LET ks == {k \in 1..Len(StdChunks) : HasPrefix(layout, StdChunks[k])}
    IN  IF ks = {} THEN <<>>
        ELSE StdChunks[CHOOSE k \in ks : \A j \in ks : k <= j]

\* nextStdChunk: the first chunk in the layout, empty when it has none
RECURSIVE nextStdChunk(_)
nextStdChunk(layout) ==
    IF layout = <<>> THEN <<>>
    ELSE IF StdAt(layout) # <<>> THEN StdAt(layout)
    ELSE nextStdChunk(Tail(layout))

\* getnum: one or two leading digits, two when fixed
getnum(s, fixed) ==
    IF ~isDigit(s, 1) THEN [ok |-> FALSE, n |-> 0, rest |-> s]
    ELSE IF ~isDigit(s, 2)
    THEN IF fixed THEN [ok |-> FALSE, n |-> 0, rest |-> s]
         ELSE [ok |-> TRUE, n |-> DigitVal(s[1]), rest |-> Tail(s)]
    ELSE [ok |-> TRUE, n |-> 10 * DigitVal(s[1]) + DigitVal(s[2]), rest |-> Drop(s, 2)]

\* the number of leading digits of s
RECURSIVE leadingDigits(_)
leadingDigits(s) == IF isDigit(s, 1) THEN 1 + leadingDigits(Tail(s)) ELSE 0

\* parseNanoseconds of the digits after the point, at most nine of them kept
nanoseconds(ds) ==
    LET d == SubSeq(ds, 1, IF Len(ds) > 9 THEN 9 ELSE Len(ds))
    IN  DecVal(d) * Pow(10, 9 - Len(d))

\* daysIn(month, year)
daysIn(m, y) ==
    IF m = 2 THEN (IF y % 4 = 0 /\ (y % 100 # 0 \/ y % 400 = 0) THEN 29 ELSE 28)
    ELSE IF m \in {4, 6, 9, 11} THEN 30 ELSE 31

\* what Parse starts from: year 0, January 1, 00:00:00 UTC
ParseStart == <<0, 1, 1, 0, 0, 0, 0, 0>>

\* a result of Parse: err is empty when it succeeded
TimeParsed(t, err) == [t |-> t, err |-> err]
errBad == <<"parsing time: cannot parse">>
errRange == <<"parsing time: out of range">>

\* the loop of Parse over the chunks of the layout, then its final checks
RECURSIVE parseFrom(_, _, _)
parseFrom(layout, value, t) ==
    IF layout = <<>> THEN
        IF value # <<>> THEN TimeParsed(t, <<"parsing time: extra text">>)
        ELSE IF t[3] < 1 \/ t[3] > daysIn(t[2], t[1]) THEN TimeParsed(t, errRange)
        ELSE TimeParsed(t, <<>>)
    ELSE
    LET std  == StdAt(layout)
        rest == Drop(layout, Len(std))
        two  == getnum(value, TRUE)
    IN  CASE std = <<>> ->
                IF value # <<>> /\ value[1] = layout[1]
                THEN parseFrom(Tail(layout), Tail(value), t)
                ELSE TimeParsed(t, errBad)
          [] std = stdLongYear ->
                IF Len(value) < 4 \/ ~(\A i \in 1..4 : isDigit(value, i))
                THEN TimeParsed(t, errBad)
                ELSE parseFrom(rest, Drop(value, 4),
                               [t EXCEPT ![1] = DecVal(SubSeq(value, 1, 4))])
          [] std = stdZeroMonth ->
                IF ~two.ok THEN TimeParsed(t, errBad)
                ELSE IF two.n <= 0 \/ 12 < two.n THEN TimeParsed(t, errRange)
                ELSE parseFrom(rest, two.rest, [t EXCEPT ![2] = two.n])
          [] std = stdZeroDay ->
                IF ~two.ok THEN TimeParsed(t, errBad)
                ELSE parseFrom(rest, two.rest, [t EXCEPT ![3] = two.n])
          [] std = stdHour ->
                LET g == getnum(value, FALSE)
                IN  IF ~g.ok THEN TimeParsed(t, errBad)
                    ELSE IF 24 <= g.n THEN TimeParsed(t, errRange)
                    ELSE parseFrom(rest, g.rest, [t EXCEPT ![4] = g.n])
          [] std = stdZeroMinute ->
                IF ~two.ok THEN TimeParsed(t, errBad)
                ELSE IF 60 <= two.n THEN TimeParsed(t, errRange)
                ELSE parseFrom(rest, two.rest, [t EXCEPT ![5] = two.n])
          [] std = stdZeroSecond ->
                IF ~two.ok THEN TimeParsed(t, errBad)
                ELSE IF 60 <= two.n THEN TimeParsed(t, errRange)
                \* a fractional second in the text though the layout has none
                \* right after the seconds
                ELSE IF /\ Len(two.rest) >= 2 /\ two.rest[1] = "." /\ isDigit(two.rest, 2)
                        /\ nextStdChunk(rest) # stdFracSecond9
                THEN LET k == leadingDigits(Tail(two.rest))
                     IN  parseFrom(rest, Drop(two.rest, 1 + k),
                                   [t EXCEPT ![6] = two.n,
                                             ![7] = nanoseconds(SubSeq(two.rest, 2, 1 + k))])
                ELSE parseFrom(rest, two.rest, [t EXCEPT ![6] = two.n])
          [] std = stdFracSecond9 ->
                IF Len(value) < 2 \/ value[1] # "." \/ ~isDigit(value, 2)
                THEN parseFrom(rest, value, t)
                ELSE LET k == leadingDigits(Tail(value))
                     IN  parseFrom(rest, Drop(value, 1 + k),
                                   [t EXCEPT ![7] = nanoseconds(SubSeq(value, 2, 1 + k))])
          [] std = stdISO8601ColonTZ ->
                IF value # <<>> /\ value[1] = "Z"
                THEN parseFrom(rest, Tail(value), [t EXCEPT ![8] = 0])
                ELSE IF Len(value) < 6 \/ value[4] # ":" THEN TimeParsed(t, errBad)
                ELSE LET hr == getnum(SubSeq(value, 2, 3), TRUE)
                         mm == getnum(SubSeq(value, 5, 6), TRUE)
                     IN  IF ~hr.ok \/ ~mm.ok \/ value[1] \notin {"+", "-"}
                         THEN TimeParsed(t, errBad)
                         ELSE parseFrom(rest, Drop(value, 6),
                                        [t EXCEPT ![8] = IF value[1] = "-"
                                                         THEN -(hr.n * 60 + mm.n)
                                                         ELSE hr.n * 60 + mm.n])

\* time.Parse(layout, value)
Parse(layout, value) == parseFrom(layout, value, ParseStart)

RECURSIVE StripTrailingZeros(_)
StripTrailingZeros(s) ==
    IF s # <<>> /\ s[Len(s)] = "0" THEN StripTrailingZeros(SubSeq(s, 1, Len(s) - 1)) ELSE s

\* n in at least w decimal digits
appendInt(n, w) == PadDigits(NatDigits(n), w)

\* Time.Format(layout)
RECURSIVE TimeFormat(_, _)
TimeFormat(t, layout) ==
    IF layout = <<>> THEN <<>>
    ELSE
    LET std == StdAt(layout)
        off == IF t[8] < 0 THEN -t[8] ELSE t[8]
    IN  (CASE std = <<>> -> <<layout[1]>>
           [] std = stdLongYear -> appendInt(t[1], 4)
           [] std = stdZeroMonth -> appendInt(t[2], 2)
           [] std = stdZeroDay -> appendInt(t[3], 2)
           [] std = stdHour -> appendInt(t[4], 2)
           [] std = stdZeroMinute -> appendInt(t[5], 2)
           [] std = stdZeroSecond -> appendInt(t[6], 2)
           [] std = stdFracSecond9 ->
                 IF t[7] = 0 THEN <<>>
                 ELSE <<".">> \o StripTrailingZeros(appendInt(t[7], 9))
           [] std = stdISO8601ColonTZ ->
                 IF t[8] = 0 THEN <<"Z">>
                 ELSE <<(IF t[8] < 0 THEN "-" ELSE "+")>>
                      \o appendInt(off \div 60, 2) \o <<":">> \o appendInt(off % 60, 2))
        \o TimeFormat(t, Drop(layout, IF std = <<>> THEN 1 ELSE Len(std)))

----------------------------------------------------------------------------
(* Field values *)

\* the value of a field: nil says a pointer field holds no value; n is the
\* integer, the boolean (0 or 1) or, with e, the decimal n / 10^e; s the text.
\* big holds the decimal digits of an unsigned 64-bit integer of 2^31 or more
\* (n is 0 then); t holds a time.Time as <<year, month, day, hour, minute,
\* second, nanosecond, zone offset in minutes>>.  Both are empty otherwise.
Val(isNil, n, e, s) == [nil |-> isNil, n |-> n, e |-> e, s |-> s, big |-> <<>>, t |-> <<>>]

\* an unsigned 64-bit integer given by its decimal digits
BigVal(digits) == [Val(FALSE, 0, 0, <<>>) EXCEPT !.big = digits]

\* a time.Time
TimeVal(t) == [Val(FALSE, 0, 0, <<>>) EXCEPT !.t = t]

\* time.Time{}: January 1, year 1, 00:00:00 UTC
ZeroTime == <<1, 1, 1, 0, 0, 0, 0, 0>>

\* the zero value of a field: nil for a pointer
ZeroVal(sf) ==
    IF sf.Kind = "time" /\ ~sf.Ptr THEN TimeVal(ZeroTime) ELSE Val(sf.Ptr, 0, 0, <<>>)

\* reflect.New(structType): every field at its zero value, by field index
ZeroStruct(st) == [i \in 0..(NumField(st) - 1) |-> ZeroVal(Field(st, i))]

----------------------------------------------------------------------------
(* Decoder.unmarshalRecord *)

\* the outcome for one field: the error (NoErr when none) and the field's value
FieldResult(err, val) == [err |-> err, val |-> val]

\* the part of the loop body that handles a field whose type, or the pointer
\* to it, implements Unmarshaler
unmarshalHook(sf, fi, r, recVal, old) ==
    LET res == UnmarshalCSV(recVal)
    IN  IF res.err # <<>>
        THEN FieldResult(newUnmarshalError(fi.ColName, fi.ColIndex, r, recVal,
                                           Wrapf(res.err, "UnmarshalCSV()")), old)
        ELSE FieldResult(NoErr, Val(FALSE, res.n, 0, <<>>))

\* the switch on f.Kind(), after a pointer field was set to a new zero value
unmarshalKind(sf, fi, r, recVal, old) ==
    CASE Kind(sf) = "string" -> FieldResult(NoErr, Val(FALSE, 0, 0, recVal))
      [] Kind(sf) = "int" ->
            LET p == ParseInt(recVal)
            IN  IF p.err # <<>> \/ OverflowInt(sf.Bits, p.n)
                THEN FieldResult(newUnmarshalError(fi.ColName, fi.ColIndex, r, recVal,
                                                   Wrapf(p.err, "strconv.ParseInt")), old)
                ELSE FieldResult(NoErr, Val(FALSE, SetInt(sf.Bits, p.n), 0, <<>>))
      [] Kind(sf) = "uint" ->
            LET p == ParseUint(recVal)
            IN  IF p.err # <<>> \/ OverflowUint(sf.Bits, p.n)
                THEN FieldResult(newUnmarshalError(fi.ColName, fi.ColIndex, r, recVal,
                                                   Wrapf(p.err, "strconv.ParseUint")), old)
                ELSE FieldResult(NoErr, Val(FALSE, SetUint(sf.Bits, p.n), 0, <<>>))
      [] Kind(sf) = "float" ->
            LET p == ParseFloat(recVal)
            IN  IF p.err # <<>>
                THEN FieldResult(newUnmarshalError(fi.ColName, fi.ColIndex, r, recVal,
                                                   Wrapf(p.err, "strconv.ParseFloat")), old)
                ELSE FieldResult(NoErr, Val(FALSE, p.n, p.e, <<>>))
      [] Kind(sf) = "bool" ->
            LET p == ParseBool(recVal)
            IN  IF p.err # <<>>
                THEN FieldResult(newUnmarshalError(fi.ColName, fi.ColIndex, r, recVal,
                                                   Wrapf(p.err, "strconv.ParseBool")), old)
                ELSE FieldResult(NoErr, Val(FALSE, p.n, 0, <<>>))
      [] Kind(sf) = "time" ->
            LET d == Parse(fi.Format, recVal)
            IN  IF d.err # <<>>
                THEN FieldResult(newUnmarshalError(fi.ColName, fi.ColIndex, r, recVal,
                                                   Wrapf(d.err, "time.Parse")), old)
                ELSE FieldResult(NoErr, TimeVal(d.t))
      [] OTHER ->
            FieldResult(newUnmarshalError(fi.ColName, fi.ColIndex, r, recVal,
                                          <<"unsupported type", TypeString(sf)>>), old)

\* a loop body that converts the empty text too
unmarshalFieldEager(sf, fi, r, recVal, old) ==
    IF ImplementsUnmarshaler(sf) THEN unmarshalHook(sf, fi, r, recVal, old)
    ELSE unmarshalKind(sf, fi, r, recVal, old)

\* the loop body for one fieldInfo whose column the record has
unmarshalField(sf, fi, r, recVal, old) ==
    IF ImplementsUnmarshaler(sf) THEN unmarshalHook(sf, fi, r, recVal, old)
    ELSE IF recVal = <<>> THEN FieldResult(NoErr, old)
    ELSE unmarshalKind(sf, fi, r, recVal, old)

\* the loop over fis from position k on; s is the struct built so far
RECURSIVE unmarshalFrom(_, _, _, _, _, _)
unmarshalFrom(st, r, record, fs, k, s) ==
    IF k > Len(fs) THEN [err |-> NoErr, s |-> s]
    ELSE LET fi == fs[k]
         IN  IF fi.SkipField \/ fi.ColName = <<>>
             THEN unmarshalFrom(st, r, record, fs, k + 1, s)
             ELSE IF Len(record) - 1 < fi.ColIndex
             THEN [err |-> Errorf(<<"not enough columns in csv data">>, r), s |-> s]
             ELSE LET res == unmarshalField(Field(st, fi.FieldIndex), fi, r,
                                            record[fi.ColIndex + 1], s[fi.FieldIndex])
                  IN  IF res.err # NoErr THEN [err |-> res.err, s |-> s]
                      ELSE unmarshalFrom(st, r, record, fs, k + 1,
                                         [s EXCEPT ![fi.FieldIndex] = res.val])

\* unmarshalRecord(row, record, v, fis) on a new zero struct
unmarshalRecord(st, r, record, fs) ==
    unmarshalFrom(st, r, record, fs, 1, ZeroStruct(st))

----------------------------------------------------------------------------
(* encRegister and Encoder.Encode *)

\* the fieldInfo Register builds for field i
encFieldInfo(st, i) ==
    LET sf   == Field(st, i)
        skip == sf.Tag = tSkip
    IN  FieldInfo(sf.Name, i, IF sf.Tag = <<>> THEN sf.Name ELSE sf.Tag,
                  IF skip THEN 0 ELSE i, getTimeFormat(sf), skip)

\* the sequence of the non-skipped field indices below n, ascending
RECURSIVE encIndices(_, _)
encIndices(st, n) ==
    IF n = 0 THEN <<>>
    ELSE IF encFieldInfo(st, n - 1).SkipField THEN encIndices(st, n - 1)
    ELSE Append(encIndices(st, n - 1), n - 1)

\* the structInfo Register stores for a type
newStructInfo(st) ==
    LET idx == encIndices(st, NumField(st))
    IN  [fields       |-> [i \in 0..(NumField(st) - 1) |-> encFieldInfo(st, i)],
         fieldIndices |-> idx,
         headerRow    |-> [k \in 1..Len(idx) |-> encFieldInfo(st, idx[k]).ColName]]

\* a Register that keeps the entry of the type it is called for and no other
RegisterAlone(reg, st) == [t \in {st} |-> newStructInfo(st)]

\* encRegister.Register: nothing when the type is there already
Register(reg, st) ==
    IF st \in DOMAIN reg THEN reg
    ELSE [t \in DOMAIN reg \cup {st} |-> IF t = st THEN newStructInfo(st) ELSE reg[t]]

GetEncodeIndices(reg, st) == IF st \in DOMAIN reg THEN reg[st].fieldIndices ELSE <<>>
GetEncodeHeaders(reg, st) == IF st \in DOMAIN reg THEN reg[st].headerRow ELSE <<>>

\* int(x) on a 64-bit platform, for the values held as n (all below 2^31)
ToInt(x) == x

\* 2^64 in decimal digits
TwoPow64Digits ==
    <<"1", "8", "4", "4", "6", "7", "4", "4", "0", "7", "3", "7", "0", "9", "5", "5", "1", "6", "1", "6">>

\* a - b for sequences of decimal digits of the same length, a >= b; the
\* result has that length too
RECURSIVE SubDigits(_, _, _)
SubDigits(a, b, borrow) ==
    IF a = <<>> THEN <<>>
    ELSE LET n == Len(a)
             d == DigitVal(a[n]) - DigitVal(b[n]) - borrow
         IN  Append(SubDigits(SubSeq(a, 1, n - 1), SubSeq(b, 1, n - 1),
                              IF d < 0 THEN 1 ELSE 0),
                    DigitChar(IF d < 0 THEN d + 10 ELSE d))

\* int(x) on a 64-bit platform for an unsigned 64-bit x given by its digits:
\* x itself below 2^63, x - 2^64 from 2^63 on
ToIntBig(digits) ==
    IF NumLeq(Int64CutoffDigits, digits)
    THEN [neg |-> TRUE,
          mag |-> StripZeros(SubDigits(TwoPow64Digits,
                                       PadDigits(digits, Len(TwoPow64Digits)), 0))]
    ELSE [neg |-> FALSE, mag |-> digits]

\* strconv.Itoa of such an int
ItoaBig(x) == IF x.neg THEN <<"-">> \o x.mag ELSE x.mag

\* what the inner loop appends to record for one field: a sequence of one text,
\* or of none where no case of the switch matches
encodeField(sf, v, format) ==
    IF ImplementsMarshaler(sf) THEN <<MarshalCSV(v.nil, v.n)>>
    ELSE IF sf.Ptr /\ v.nil THEN << <<>> >>
    ELSE CASE Kind(sf) = "string" -> <<v.s>>
           [] Kind(sf) = "int"    -> <<Itoa(ToInt(v.n))>>
           [] Kind(sf) = "uint"   ->
                 IF v.big # <<>> THEN <<ItoaBig(ToIntBig(v.big))>>
                 ELSE <<Itoa(ToInt(v.n))>>
           [] Kind(sf) = "float"  -> <<FormatFloat(v.n, v.e)>>
           [] Kind(sf) = "bool"   -> <<FormatBool(v.n)>>
           [] Kind(sf) = "time"   -> <<TimeFormat(v.t, format)>>
           [] OTHER              -> <<>>

\* the record built for one struct value from position k of the indices on;
\* fields is encRegister.Fields[st].fields
RECURSIVE encodeFrom(_, _, _, _, _)
encodeFrom(fields, st, idx, k, sv) ==
    IF k > Len(idx) THEN <<>>
    ELSE encodeField(Field(st, idx[k]), sv[idx[k]], fields[idx[k]].Format)
         \o encodeFrom(fields, st, idx, k + 1, sv)

\* the records Encode writes for the slice: the header row unless suppressed,
\* then one record per element
encodeRows(reg, st, noHeaderRow, slice) ==
    (IF noHeaderRow THEN <<>> ELSE <<GetEncodeHeaders(reg, st)>>)
    \o [k \in 1..Len(slice) |->
            encodeFrom(reg[st].fields, st, GetEncodeIndices(reg, st), 1, slice[k])]

----------------------------------------------------------------------------
(* The CSV input: what csv.Reader.Read can return *)

\* texts worth reading into a field of this type
KindTexts(sf) ==
    CASE sf.Kind = "string" -> {ta, tSecond}
      [] sf.Kind = "int" /\ sf.Bits = 64 -> {t1}
      [] sf.Kind = "int" /\ sf.Bits = 8 ->
            {t127, t128, tMinus128, tMinus129, tPlus1, t01}
      [] sf.Kind = "uint" -> {t255, t256, t300, tMinus1, tHuge}
      [] sf.Kind = "bool" -> {tt, ttrue, tfalse, ta}
      [] sf.Kind = "float" -> {t1p5, t1p50, t10p05, t1, ta}
      [] sf.Kind = "YesNoBool" -> {tyes, tno, ta}
      [] OTHER -> {ta}

\* the texts a cell of a data row holds when decoding into st: the empty
\* text and the texts of its fields' kinds
TextsFor(st) == {<<>>} \cup UNION {KindTexts(st[i]) : i \in 1..Len(st)}

\* the texts of the data rows read while the resolution of columns is examined
FillTexts == {ta, t1}

\* the column names a header row holds when decoding into st: the names and
\* the tags of its fields, as they are and lower-cased
NamesFor(st) ==
    UNION {{st[i].Name, lowerName(st[i].Name)} \cup
           (IF st[i].Tag \in {<<>>, tSkip} THEN {}
            ELSE {st[i].Tag, lowerName(st[i].Tag)}) : i \in 1..Len(st)}

\* the records of n columns, and of 1 to MaxCols columns, over a set of texts
RecordsOfLen(texts, n) == [1..n -> texts]
Records(texts) == UNION {RecordsOfLen(texts, n) : n \in 1..MaxCols}

\* header rows in the order of the struct's fields: the field names, the
\* lower-cased field names, and the header row Encode writes for the type
HeadersFor(st) ==
    {[i \in 1..Len(st) |-> st[i].Name],
     [i \in 1..Len(st) |-> lowerName(st[i].Name)],
     newStructInfo(st).headerRow}

\* the column counts of those header rows
WidthsFor(st) == {Len(h) : h \in HeadersFor(st)}

\* the data rows among the records read
dataRows(noHeader, in) == IF noHeader \/ in = <<>> THEN in ELSE Tail(in)

----------------------------------------------------------------------------
(* The state machine *)

Init ==
    /\ withoutHeader = FALSE
    /\ headerPassed = FALSE
    /\ input = <<>>
    /\ pc = "idle"
    /\ structType = <<>>
    /\ fis = <<>>
    /\ row = 0
    /\ items = <<>>
    /\ decErr = NoErr
    /\ withoutHeaderRow = FALSE
    /\ encRegister = <<>>
    /\ written = <<>>
    /\ encErr = NoErr

\* Decoder.UseHeader(b)
DecoderUseHeader(b) ==
    /\ pc = "idle"
    /\ withoutHeader' = ~b
    /\ UNCHANGED <<headerPassed, input, pc, structType, fis, row, items, decErr,
                   withoutHeaderRow, encRegister, written, encErr>>

\* Encoder.UseHeader(v)
EncoderUseHeader(v) ==
    /\ pc = "idle"
    /\ withoutHeaderRow' = ~v
    /\ UNCHANGED <<withoutHeader, headerPassed, input, pc, structType, fis, row,
                   items, decErr, encRegister, written, encErr>>

\* Decoder.Decode(v) up to its loop, v a pointer to an empty slice of st
DecodeBegin(st) ==
    /\ pc = "idle"
    /\ pc' = "decoding"
    /\ structType' = st
    /\ fis' = <<>>
    /\ row' = 0
    /\ items' = <<>>
    /\ UNCHANGED <<withoutHeader, headerPassed, input, decErr, withoutHeaderRow,
                   encRegister, written, encErr>>

\* one pass of Decode's loop in which csvReader.Read returns record
DecodeRecord(record) ==
    /\ pc = "decoding"
    /\ input' = Append(input, record)
    /\ headerPassed' = TRUE
    /\ \E fs \in (IF headerPassed THEN {fis}
                  ELSE getFieldInfo(structType, withoutHeader, record)) :
          /\ fis' = fs
          /\ IF ~headerPassed /\ ~withoutHeader
             THEN /\ row' = row + 1
                  /\ UNCHANGED <<pc, items, decErr>>
             ELSE LET res == unmarshalRecord(structType, row, record, fs)
                  IN  IF res.err # NoErr
                      THEN /\ decErr' = res.err
                           /\ pc' = "decoded"
                           /\ UNCHANGED <<row, items>>
                      ELSE /\ items' = Append(items, res.s)
                           /\ row' = row + 1
                           /\ UNCHANGED <<pc, decErr>>
    /\ UNCHANGED <<withoutHeader, structType, withoutHeaderRow, encRegister,
                   written, encErr>>

\* csvReader.Read returns a record of an input laid out in the order of the
\* struct's fields; every record has as many fields as the first one
\* (csv.Reader.FieldsPerRecord is 0)
DecodeRead ==
    /\ Len(dataRows(withoutHeader, input)) < MaxRows
    /\ \E record \in
          (IF input # <<>> THEN RecordsOfLen(TextsFor(structType), Len(input[1]))
           ELSE IF withoutHeader
           THEN UNION {RecordsOfLen(TextsFor(structType), n) : n \in WidthsFor(structType)}
           ELSE HeadersFor(structType)) :
          DecodeRecord(record)

\* csvReader.Read returns a record of an input of any column names and any
\* column count
DecodeReadAnyShape ==
    /\ Len(dataRows(withoutHeader, input)) < MaxRows
    /\ \E record \in
          (IF input # <<>> THEN RecordsOfLen(FillTexts, Len(input[1]))
           ELSE IF withoutHeader THEN Records(FillTexts)
           ELSE Records(NamesFor(structType))) :
          DecodeRecord(record)

\* csvReader.Read returns io.EOF: Decode returns nil
DecodeEOF ==
    /\ pc = "decoding"
    /\ pc' = "decoded"
    /\ decErr' = NoErr
    /\ UNCHANGED <<withoutHeader, headerPassed, input, structType, fis, row, items,
                   withoutHeaderRow, encRegister, written, encErr>>

\* Encoder.Encode(v), v a pointer to the slice Decode filled
Encode ==
    /\ pc = "decoded"
    /\ decErr = NoErr
    /\ pc' = "encoded"
    /\ encRegister' = Register(encRegister, structType)
    /\ written' = written \o encodeRows(encRegister', structType, withoutHeaderRow, items)
    /\ encErr' = NoErr
    /\ UNCHANGED <<withoutHeader, headerPassed, input, structType, fis, row, items,
                   decErr, withoutHeaderRow>>

Next ==
    \/ \E b \in BOOLEAN : DecoderUseHeader(b)
    \/ \E v \in BOOLEAN : EncoderUseHeader(v)
    \/ \E st \in StructTypes : DecodeBegin(st)
    \/ DecodeRead
    \/ DecodeEOF
    \/ Encode

Spec == Init /\ [][Next]_vars

\* decoding inputs of any shape
NextResolution ==
    \/ \E b \in BOOLEAN : DecoderUseHeader(b)
    \/ \E st \in StructTypes : DecodeBegin(st)
    \/ DecodeReadAnyShape
    \/ DecodeEOF

SpecResolution == Init /\ [][NextResolution]_vars

----------------------------------------------------------------------------
(* Calls followed column by column: each column of the input holds texts for *)
(* the field it stands for; Encode is also called on slices of the caller    *)

\* the texts of a column that stands for field sf
CellTexts(sf) ==
    CASE sf.Kind = "string" -> {ta, tb}
      [] sf.Kind = "int" -> {t1, t2}
      [] sf.Kind = "uint" -> {t1, t10}
      [] sf.Kind = "bool" -> {<<>>, tf, ttrue}
      [] sf.Kind = "YesNoBool" -> {tyes, tno}
      [] sf.Kind = "time" ->
            {<<>>, t2000_01, t2000_13, tStamp, tStampFrac, tStampFrac0,
             tStampUTCOffset, tStampOffset, lInvalidFormat}
      [] OTHER -> {ta}

\* the data rows of an input whose columns are the non-skipped fields of st,
\* in declaration order
RowsFor(st) ==
    LET idx == newStructInfo(st).fieldIndices
        all == UNION {CellTexts(st[i]) : i \in 1..Len(st)}
    IN  {r \in [1..Len(idx) -> all] :
            \A k \in 1..Len(idx) : r[k] \in CellTexts(Field(st, idx[k]))}

\* csvReader.Read returns a record of such an input: the header row Encode
\* writes for the type first, unless withoutHeader
DecodeReadColumns ==
    /\ Len(dataRows(withoutHeader, input)) < MaxRows
    /\ \E record \in
          (IF input = <<>> /\ ~withoutHeader THEN {newStructInfo(structType).headerRow}
           ELSE RowsFor(structType)) :
          DecodeRecord(record)

\* the values a field of a slice of the caller holds
ValuesFor(sf) ==
    (IF sf.Ptr THEN {Val(TRUE, 0, 0, <<>>)} ELSE {}) \cup
    (CASE sf.Kind = "string" -> {Val(FALSE, 0, 0, ta), Val(FALSE, 0, 0, <<>>)}
       [] sf.Kind = "int" -> {Val(FALSE, 1, 0, <<>>), Val(FALSE, -1, 0, <<>>)}
       [] sf.Kind = "uint" ->
             {Val(FALSE, 0, 0, <<>>), Val(FALSE, 10, 0, <<>>),
              BigVal(Int64CutoffDigits), BigVal(MaxUint64Digits)}
       [] sf.Kind \in {"bool", "YesNoBool"} ->
             {Val(FALSE, 1, 0, <<>>), Val(FALSE, 0, 0, <<>>)}
       [] sf.Kind = "time" -> {TimeVal(ZeroTime), TimeVal(<<2000, 1, 2, 3, 4, 5, 0, 0>>)}
       [] OTHER -> {Val(FALSE, 0, 0, <<>>)})

\* the struct values of type st
StructsFor(st) ==
    {sv \in [0..(NumField(st) - 1) -> UNION {ValuesFor(st[i]) : i \in 1..Len(st)}] :
        \A i \in 0..(NumField(st) - 1) : sv[i] \in ValuesFor(Field(st, i))}

\* the slices of the caller: at most MaxRows elements
SlicesFor(st) == UNION {[1..n -> StructsFor(st)] : n \in 0..MaxRows}

\* Encoder.Encode(v), v a pointer to a slice of the caller
EncodeSlice(st, slice) ==
    /\ pc = "idle"
    /\ pc' = "encoded"
    /\ structType' = st
    /\ items' = slice
    /\ encRegister' = Register(encRegister, st)
    /\ written' = written \o encodeRows(encRegister', st, withoutHeaderRow, slice)
    /\ encErr' = NoErr
    /\ UNCHANGED <<withoutHeader, headerPassed, input, fis, row, decErr,
                   withoutHeaderRow>>

\* what v can be other than a pointer to a slice of structs: a value that is
\* no pointer, a pointer to something that is no slice, a pointer to a slice
\* whose elements are no structs
Shapes == {"nonPtr", "ptrNonSlice", "ptrSliceNonStruct"}

\* the panic of reflect's Type.NumField on a type that is no struct
PanicNumField ==
    [type |-> "panic", Column |-> <<>>, Row |-> 0, Value |-> <<>>,
     RawErr |-> <<"reflect: NumField of non-struct type">>]

\* Decoder.Decode(v), v of such a shape: the two checks of rv.Kind() return an
\* error; a pointer to a slice of another element type passes them and
\* enters the loop
DecodeShape(shape) ==
    /\ pc = "idle"
    /\ CASE shape = "nonPtr" ->
              pc' = "returned" /\ decErr' = Errorf(<<"non pointer">>, 0)
         [] shape = "ptrNonSlice" ->
              pc' = "returned" /\ decErr' = Errorf(<<"expected slice to store data in">>, 0)
         [] shape = "ptrSliceNonStruct" ->
              pc' = "decodingNonStruct" /\ decErr' = decErr
    /\ UNCHANGED <<withoutHeader, headerPassed, input, structType, fis, row, items,
                   withoutHeaderRow, encRegister, written, encErr>>

\* the first pass of that loop when csvReader.Read returns a record:
\* getFieldInfo calls st.NumField() on the element type, which panics
DecodeNonStructRead ==
    /\ pc = "decodingNonStruct"
    /\ \E record \in RecordsOfLen(FillTexts, 1) : input' = Append(input, record)
    /\ pc' = "panicked"
    /\ decErr' = PanicNumField
    /\ UNCHANGED <<withoutHeader, headerPassed, structType, fis, row, items,
                   withoutHeaderRow, encRegister, written, encErr>>

\* the first pass of that loop when csvReader.Read returns io.EOF: Decode
\* returns nil
DecodeNonStructEOF ==
    /\ pc = "decodingNonStruct"
    /\ pc' = "returned"
    /\ decErr' = NoErr
    /\ UNCHANGED <<withoutHeader, headerPassed, input, structType, fis, row, items,
                   withoutHeaderRow, encRegister, written, encErr>>

\* Encoder.Encode(v), v of such a shape: the two checks of rv.Kind() return an
\* error; for a pointer to a slice of another element type Register calls
\* st.NumField(), which panics before anything is written
EncodeShape(shape) ==
    /\ pc = "idle"
    /\ CASE shape = "nonPtr" ->
              pc' = "returned" /\ encErr' = Errorf(<<"non pointer">>, 0)
         [] shape = "ptrNonSlice" ->
              pc' = "returned" /\ encErr' = Errorf(<<"expected slice">>, 0)
         [] shape = "ptrSliceNonStruct" ->
              pc' = "panicked" /\ encErr' = PanicNumField
    /\ UNCHANGED <<withoutHeader, headerPassed, input, structType, fis, row, items,
                   decErr, withoutHeaderRow, encRegister, written>>

NextCalls ==
    \/ \E b \in BOOLEAN : DecoderUseHeader(b)
    \/ \E v \in BOOLEAN : EncoderUseHeader(v)
    \/ \E st \in CallTypes : DecodeBegin(st)
    \/ DecodeReadColumns
    \/ DecodeEOF
    \/ Encode
    \/ pc = "idle" /\ \E st \in CallTypes : \E slice \in SlicesFor(st) :
                          EncodeSlice(st, slice)
    \/ \E shape \in Shapes : DecodeShape(shape)
    \/ DecodeNonStructRead
    \/ DecodeNonStructEOF
    \/ \E shape \in Shapes : EncodeShape(shape)

SpecCalls == Init /\ [][NextCalls]_vars

----------------------------------------------------------------------------
(* Several Decode calls: new Decoders, and one Decoder used again *)

\* the struct types decoded in several calls
SessionTypes == {T_Plain, T_Strings}

\* the header rows of the inputs of those calls: the field names in any column
\* order, and the lower-cased field names
SessionHeaders(st) ==
    {[i \in 1..Len(st) |-> st[o[i]].Name] : o \in Orders(1..Len(st))} \cup
    {[i \in 1..Len(st) |-> lowerName(st[i].Name)]}

\* csvReader.Read returns a record of the current input: a header row first
\* unless withoutHeader, then rows of as many columns
DecodeReadSession ==
    /\ Len(dataRows(withoutHeader, input)) < MaxRows
    /\ \E record \in
          (IF input # <<>> THEN RecordsOfLen(FillTexts, Len(input[1]))
           ELSE IF withoutHeader THEN RecordsOfLen(FillTexts, Len(structType))
           ELSE SessionHeaders(structType)) :
          DecodeRecord(record)

\* Decoder.SetCSVReader(r) after a Decode call returned: the Decoder reads a
\* new input from then on; its other fields stay as they are
SetCSVReader ==
    /\ pc = "decoded"
    /\ pc' = "idle"
    /\ input' = <<>>
    /\ decErr' = NoErr
    /\ UNCHANGED <<withoutHeader, headerPassed, structType, fis, row, items,
                   withoutHeaderRow, encRegister, written, encErr>>

\* NewDecoder(r) after a Decode call returned, as Unmarshal does on every
\* call: a Decoder with all fields zero reads a new input
NewDecoder ==
    /\ pc = "decoded"
    /\ pc' = "idle"
    /\ input' = <<>>
    /\ decErr' = NoErr
    /\ headerPassed' = FALSE
    /\ withoutHeader' = FALSE
    /\ UNCHANGED <<structType, fis, row, items, withoutHeaderRow, encRegister,
                   written, encErr>>

\* Decoder.Decode(v) up to its loop, v the pointer to the slice the call
\* before filled
DecodeBeginAppend ==
    /\ pc = "idle"
    /\ items # <<>>
    /\ Len(items) < MaxRows
    /\ pc' = "decoding"
    /\ fis' = <<>>
    /\ row' = 0
    /\ UNCHANGED <<withoutHeader, headerPassed, input, structType, items, decErr,
                   withoutHeaderRow, encRegister, written, encErr>>

NextSessions ==
    \/ \E b \in BOOLEAN : DecoderUseHeader(b)
    \/ \E st \in SessionTypes : DecodeBegin(st)
    \/ DecodeBeginAppend
    \/ DecodeReadSession
    \/ DecodeEOF
    \/ SetCSVReader
    \/ NewDecoder

SpecSessions == Init /\ [][NextSessions]_vars

-----------------------------------------------------------------------------
(* Inputs whose records differ in length: a csv.Reader handed over with      *)
(* SetCSVReader whose FieldsPerRecord is negative checks no record's length  *)

\* csvReader.Read returns a record of any column count, whatever the count of
\* the records before it
DecodeReadRagged ==
    /\ Len(dataRows(withoutHeader, input)) < MaxRows
    /\ \E record \in (IF input = <<>> /\ ~withoutHeader
                      THEN Records(NamesFor(structType))
                      ELSE Records(FillTexts)) :
          DecodeRecord(record)

NextRagged ==
    \/ \E b \in BOOLEAN : DecoderUseHeader(b)
    \/ \E st \in SessionTypes : DecodeBegin(st)
    \/ DecodeReadRagged
    \/ DecodeEOF

SpecRagged == Init /\ [][NextRagged]_vars

----------------------------------------------------------------------------
(* Several Encode calls: one Encoder used again, and new Encoders *)

\* the struct types encoded in several calls
EncodeTypes == {T_Strings, T_Skip, T_PtrBool}

\* the slices of the caller in those calls: empty or of one element
ShortSlicesFor(st) == {<<>>} \cup {<<sv>> : sv \in StructsFor(st)}

\* Encoder.Encode(v) on an Encoder that has encoded before, v a pointer to a
\* slice of the caller; the rows go to the same csvWriter
EncodeAgain(st, slice) ==
    /\ pc = "encoded"
    /\ Len(written) <= MaxRows
    /\ structType' = st
    /\ items' = slice
    /\ encRegister' = Register(encRegister, st)
    /\ written' = written \o encodeRows(encRegister', st, withoutHeaderRow, slice)
    /\ encErr' = NoErr
    /\ UNCHANGED <<withoutHeader, headerPassed, input, pc, fis, row, decErr,
                   withoutHeaderRow>>

\* NewEncoder(w) after an Encode call returned, as Marshal does on every call:
\* a new csvWriter, the header row enabled, and defaultEncRegister, the map
\* every Encoder shares
NewEncoder ==
    /\ pc = "encoded"
    /\ pc' = "idle"
    /\ written' = <<>>
    /\ withoutHeaderRow' = FALSE
    /\ UNCHANGED <<withoutHeader, headerPassed, input, structType, fis, row, items,
                   decErr, encRegister, encErr>>

NextEncodes ==
    \/ \E v \in BOOLEAN : EncoderUseHeader(v)
    \/ pc = "idle" /\ \E st \in EncodeTypes : \E slice \in ShortSlicesFor(st) :
                          EncodeSlice(st, slice)
    \/ pc = "encoded" /\ \E st \in EncodeTypes : \E slice \in ShortSlicesFor(st) :
                          EncodeAgain(st, slice)
    \/ NewEncoder

SpecEncodes == Init /\ [][NextEncodes]_vars

-----------------------------------------------------------------------------
(* Two goroutines, each with an Encoder of its own, call Encode for the same *)
(* struct type. NewEncoder hands every Encoder defaultEncRegister, whose map *)
(* they share, and Register takes no lock: a goroutine that reads or writes  *)
(* the map while the other writes it is a data race, with the outcomes of a  *)
(* Go map under a race                                                       *)

\* where a goroutine is in Encode: before the lookup of Register, before and
\* within the assignment er.Fields[st] = *si, before GetEncodeHeaders, returned
Positions == {"lookup", "store", "storing", "headers", "done"}

\* pc while the two goroutines run: the position of the first and of the second
Both(p, q) == p \o "," \o q

Running == \E p \in Positions, q \in Positions : pc = Both(p, q)

\* the position of goroutine g
At(g) == (CHOOSE pq \in Positions \X Positions : pc = Both(pq[1], pq[2]))[g]

Other(g) == 3 - g

\* goroutine g goes on to position p
Move(g, p) == pc' = IF g = 1 THEN Both(p, At(2)) ELSE Both(At(1), p)

\* the runtime notices the race: fatal error: concurrent map writes (or
\* concurrent map read and map write); the process ends
Fatal ==
    /\ pc' = "fatal"
    /\ UNCHANGED <<withoutHeader, headerPassed, input, structType, fis, row, items,
                   decErr, withoutHeaderRow, encRegister, written, encErr>>

\* go enc1.Encode(&v); go enc2.Encode(&v), v an empty slice of a struct type
\* the register does not hold
GoEncode(st) ==
    /\ pc = "idle"
    /\ st \notin DOMAIN encRegister
    /\ pc' = Both("lookup", "lookup")
    /\ structType' = st
    /\ items' = <<>>
    /\ written' = <<>>
    /\ encErr' = NoErr
    /\ UNCHANGED <<withoutHeader, headerPassed, input, fis, row, decErr,
                   withoutHeaderRow, encRegister>>

\* Register: _, found := er.Fields[st]
Lookup(g) ==
    /\ Running /\ At(g) = "lookup"
    /\ IF At(Other(g)) = "storing"
       THEN \/ Fatal
            \/ /\ \E found \in BOOLEAN : Move(g, IF found THEN "headers" ELSE "store")
               /\ UNCHANGED <<withoutHeader, headerPassed, input, structType, fis, row,
                              items, decErr, withoutHeaderRow, encRegister, written,
                              encErr>>
       ELSE /\ Move(g, IF structType \in DOMAIN encRegister THEN "headers" ELSE "store")
            /\ UNCHANGED <<withoutHeader, headerPassed, input, structType, fis, row,
                           items, decErr, withoutHeaderRow, encRegister, written,
                           encErr>>

\* Register: si is built, the assignment er.Fields[st] = *si begins
BeginStore(g) ==
    /\ Running /\ At(g) = "store"
    /\ \/ At(Other(g)) = "storing" /\ Fatal
       \/ /\ Move(g, "storing")
          /\ UNCHANGED <<withoutHeader, headerPassed, input, structType, fis, row,
                         items, decErr, withoutHeaderRow, encRegister, written,
                         encErr>>

\* the map after er.Fields[st] = *si
Stored(reg, st) ==
    [t \in DOMAIN reg \cup {st} |-> IF t = st THEN newStructInfo(st) ELSE reg[t]]

\* the map without the entry of st
Without(reg, st) == [t \in DOMAIN reg \ {st} |-> reg[t]]

\* Register: the assignment er.Fields[st] = *si ends; when the other
\* goroutine is within its own assignment the insert may be lost
EndStore(g) ==
    /\ Running /\ At(g) = "storing"
    /\ Move(g, "headers")
    /\ encRegister' \in
          {Stored(encRegister, structType)} \cup
          (IF At(Other(g)) = "storing" THEN {Without(encRegister, structType)} ELSE {})
    /\ UNCHANGED <<withoutHeader, headerPassed, input, structType, fis, row, items,
                   decErr, withoutHeaderRow, written, encErr>>

\* Encode: csvWriter.Write(enc.encRegister.GetEncodeHeaders(st)), and return,
\* the slice being empty; written holds the records of both writers
WriteHeaders(g) ==
    /\ Running /\ At(g) = "headers"
    /\ \/ At(Other(g)) = "storing" /\ Fatal
       \/ /\ Move(g, "done")
          /\ \E headers \in
                {GetEncodeHeaders(encRegister, structType)} \cup
                (IF At(Other(g)) = "storing"
                 THEN {GetEncodeHeaders(<<>>, structType),
                       GetEncodeHeaders(Stored(encRegister, structType), structType)}
                 ELSE {}) :
                written' = Append(written, headers)
          /\ UNCHANGED <<withoutHeader, headerPassed, input, structType, fis, row,
                         items, decErr, withoutHeaderRow, encRegister, encErr>>

\* both goroutines have returned
Join ==
    /\ pc = Both("done", "done")
    /\ pc' = "encoded"
    /\ UNCHANGED <<withoutHeader, headerPassed, input, structType, fis, row, items,
                   decErr, withoutHeaderRow, encRegister, written, encErr>>

NextConcurrent ==
    \/ \E st \in EncodeTypes : GoEncode(st)
    \/ \E g \in 1..2 : Lookup(g)
    \/ \E g \in 1..2 : BeginStore(g)
    \/ \E g \in 1..2 : EndStore(g)
    \/ \E g \in 1..2 : WriteHeaders(g)
    \/ Join
    \/ pc = "idle" /\ \E st \in EncodeTypes : \E slice \in ShortSlicesFor(st) :
                          EncodeSlice(st, slice)
    \/ NewEncoder

SpecConcurrent == Init /\ [][NextConcurrent]_vars

-----------------------------------------------------------------------------
(* Marshal followed by Unmarshal of the data written *)

\* struct { First *string; Second int }
T_PtrString == <<F(tFirst, <<>>, "string", 0, TRUE), F(tSecond, <<>>, "int", 64, FALSE)>>

\* struct types of string, integer and bool fields and pointers to them
RoundTripTypes == {T_Plain, T_PtrBool, T_Uint, T_PtrInt, T_PtrString}

\* the records csv.Reader reads from the text csv.Writer wrote for the
\* records: a record of no field, or of one empty field, is written as an
\* empty line, and the Reader skips empty lines
ReadAll(records) ==
    SelectSeq(records, LAMBDA record : record \notin {<<>>, <<(<<>>)>>})

\* Decode's loop over the data rows from the k-th on, the header row passed;
\* acc is the slice so far
RECURSIVE decodeRows(_, _, _, _, _)
decodeRows(st, fs, rows, k, acc) ==
    IF k > Len(rows) THEN [err |-> NoErr, items |-> acc, row |-> k]
    ELSE LET res == unmarshalRecord(st, k, rows[k], fs)
         IN  IF res.err # NoErr THEN [err |-> res.err, items |-> acc, row |-> k]
             ELSE decodeRows(st, fs, rows, k + 1, Append(acc, res.s))

\* Unmarshal(data, &v) of the data Marshal wrote, v a new empty slice: a new
\* Decoder reads the header row and decodes every further row
UnmarshalWritten ==
    /\ pc = "encoded" /\ ~withoutHeaderRow
    /\ pc' = "unmarshaled"
    /\ input' = ReadAll(written)
    /\ withoutHeader' = FALSE
    /\ headerPassed' = TRUE
    /\ \E fs \in getFieldInfo(structType, FALSE, input'[1]) :
          LET res == decodeRows(structType, fs, Tail(input'), 1, <<>>)
          IN  /\ fis' = fs
              /\ items' = res.items
              /\ row' = res.row
              /\ decErr' = res.err
    /\ UNCHANGED <<structType, withoutHeaderRow, encRegister, written, encErr>>

NextRoundTrip ==
    \/ pc = "idle" /\ \E st \in RoundTripTypes : \E slice \in SlicesFor(st) :
                          EncodeSlice(st, slice)
    \/ UnmarshalWritten

SpecRoundTrip == Init /\ [][NextRoundTrip]_vars

----------------------------------------------------------------------------
(* Properties *)

\* Decode has read the record that resolves the columns
Resolved == pc \in {"decoding", "decoded", "encoded"} /\ input # <<>>

\* the data rows read so far; row k of them yields items[k] unless it failed
Rows == dataRows(withoutHeader, input)

\* the ordinal Decode gives the k-th data row
RowOrdinal(k) == IF withoutHeader THEN k - 1 ELSE k

\* field index i has a fieldInfo in fis
Bound(i) == \E k \in 1..Len(fis) : fis[k].FieldIndex = i /\ ~fis[k].SkipField

\* the column name a field of a header-mode input stands for: its override
\* tag, else its own name when the header has it, else its lower-cased name
ResolvedName(sf, header) ==
    IF sf.Tag # <<>> THEN sf.Tag
    ELSE IF \E c \in 1..Len(header) : header[c] = sf.Name THEN sf.Name
    ELSE lowerName(sf.Name)

\* the fields that share their column name with another field
Colliding(st, header) ==
    {i \in 0..(NumField(st) - 1) :
        /\ Field(st, i).Tag # tSkip
        /\ \E j \in 0..(NumField(st) - 1) :
              /\ j # i
              /\ Field(st, j).Tag # tSkip
              /\ ResolvedName(Field(st, j), header) = ResolvedName(Field(st, i), header)}

\* C1: in header mode, fields that resolve to the same column name are all
\* absent from the bindings, keep their zero value in every decoded record, and
\* no error Decode returns is about their column
C1_CollidingFieldsUnbound ==
    (Resolved /\ ~withoutHeader) =>
        \A i \in Colliding(structType, input[1]) :
            /\ \A k \in 1..Len(fis) : fis[k].FieldIndex # i
            /\ \A k \in 1..Len(items) : items[k][i] = ZeroVal(Field(structType, i))
            /\ decErr.type = "UnmarhsalError" =>
                  decErr.Column # ResolvedName(Field(structType, i), input[1])

\* C1 witness: two records decoded without error from rows that hold text in
\* the column two fields collide on
C1_Witness ==
    /\ pc = "decoded" /\ ~withoutHeader /\ decErr = NoErr
    /\ structType = T_Dup
    /\ input = <<(<<tFirst, tSecond>>), <<ta, t1>>, <<t1, ta>>>>
    /\ Colliding(structType, input[1]) = {0, 1}
    /\ Len(items) = 2

\* C2: an empty text is never converted: no hook runs on it and no error comes
\* of it, and the field it is bound to keeps its zero value (nil for a pointer)
C2_EmptyTextNotConverted ==
    Resolved =>
        /\ decErr.type = "UnmarhsalError" => decErr.Value # <<>>
        /\ \A k \in 1..Len(items) : \A j \in 1..Len(fis) :
              (/\ ~fis[j].SkipField
               /\ fis[j].ColIndex < Len(Rows[k])
               /\ Rows[k][fis[j].ColIndex + 1] = <<>>)
              => items[k][fis[j].FieldIndex] =
                     ZeroVal(Field(structType, fis[j].FieldIndex))

\* a decimal numeral: digits, after a sign where the field's kind reads one
IsNumeral(sf, text) ==
    /\ text # <<>>
    /\ LET ds == IF text[1] = "-" \/ (text[1] = "+" /\ sf.Kind = "int")
                 THEN Tail(text) ELSE text
       IN  ds # <<>> /\ AllDigits(ds)

\* the number a numeral denotes fits the field's width (numerals of more than
\* nine digits do not fit a field of fewer than 64 bits)
Fits(sf, text) ==
    LET neg == text[1] = "-"
        ds  == StripZeros(IF text[1] \in {"-", "+"} THEN Tail(text) ELSE text)
        v   == IF neg THEN -DecVal(ds) ELSE DecVal(ds)
    IN  IF sf.Bits = 64
        THEN IF sf.Kind = "uint" THEN ~neg /\ NumLeq(ds, MaxUint64Digits)
             ELSE Len(ds) < Len(Int64CutoffDigits)
        ELSE /\ Len(ds) <= 9
             /\ IF sf.Kind = "uint" THEN 0 <= v /\ v < Pow(2, sf.Bits)
                ELSE -Pow(2, sf.Bits - 1) <= v /\ v < Pow(2, sf.Bits - 1)

NumeralValue(text) ==
    LET ds == IF text[1] \in {"-", "+"} THEN Tail(text) ELSE text
    IN  IF text[1] = "-" THEN -DecVal(ds) ELSE DecVal(ds)

\* C3: a numeral read into an integer field of width W is stored exactly when
\* it fits W bits, and makes Decode fail, with no record appended for its row,
\* when it does not
C3_IntegerOverflowFails ==
    Resolved =>
        \A k \in 1..Len(Rows) : \A j \in 1..Len(fis) :
            LET fi   == fis[j]
                sf   == Field(structType, fi.FieldIndex)
                text == Rows[k][fi.ColIndex + 1]
            IN  (/\ ~fi.SkipField
                 /\ sf.Kind \in {"int", "uint"}
                 /\ fi.ColIndex < Len(Rows[k])
                 /\ IsNumeral(sf, text))
                =>
                IF Fits(sf, text)
                THEN /\ k <= Len(items) =>
                            items[k][fi.FieldIndex] = Val(FALSE, NumeralValue(text), 0, <<>>)
                     /\ k > Len(items) =>
                            ~(/\ decErr.type = "UnmarhsalError"
                              /\ decErr.Column = fi.ColName
                              /\ decErr.Row = RowOrdinal(k))
                ELSE k > Len(items) /\ decErr # NoErr /\ pc = "decoded"

\* C3 witness: 255 was stored in a uint8 field and 300 made Decode fail
C3_Witness ==
    /\ pc = "decoded"
    /\ structType = T_Uint8
    /\ Rows = <<(<<t255>>), <<t300>>>>
    /\ Len(items) = 1 /\ items[1][0].n = 255
    /\ decErr.type = "UnmarhsalError" /\ decErr.Value = t300

\* C4: every conversion failure Decode returns names its column, its row and
\* the text it could not convert, and carries a cause that is not nil
C4_ConversionErrorHasCause ==
    decErr.type = "UnmarhsalError" =>
        /\ decErr.Column # <<>>
        /\ decErr.Row = RowOrdinal(Len(Rows))
        /\ \E c \in 1..Len(Rows[Len(Rows)]) : Rows[Len(Rows)][c] = decErr.Value
        /\ decErr.RawErr # <<>>

\* the struct type carries no csvplus tag
NoTags(st) == \A i \in 1..Len(st) : st[i].Tag = <<>>

\* C5: resolving an untagged struct type against a header that has all its
\* field names returns one fieldInfo per field, in declaration order, with the
\* header position of the field's name as ColIndex
C5_BindingsInDeclarationOrder ==
    (/\ Resolved /\ ~withoutHeader
     /\ NoTags(structType)
     /\ \A i \in 1..Len(structType) :
            \E c \in 1..Len(input[1]) : input[1][c] = structType[i].Name)
    =>
    /\ Len(fis) = Len(structType)
    /\ \A k \in 1..Len(fis) :
          /\ fis[k].FieldIndex = k - 1
          /\ fis[k].Name = structType[k].Name
          /\ fis[k].ColIndex < Len(input[1])
          /\ input[1][fis[k].ColIndex + 1] = structType[k].Name

\* the indices of the fields not tagged "-", in declaration order
NonSkipped(st) ==
    SelectSeq([i \in 1..Len(st) |-> i - 1], LAMBDA i : Field(st, i).Tag # tSkip)

\* C6: without a header the k-th non-skipped field is bound to column k,
\* whatever texts the first row holds
C6_PositionalBindings ==
    (Resolved /\ withoutHeader) =>
        \A k \in 1..Len(NonSkipped(structType)) :
            \E j \in 1..Len(fis) :
                /\ fis[j].FieldIndex = NonSkipped(structType)[k]
                /\ ~fis[j].SkipField
                /\ fis[j].ColIndex = k - 1

\* C7: without a header, a first row whose column count differs from the
\* number of non-skipped fields makes Decode fail with no record appended
C7_ColumnCountMismatchFails ==
    (/\ Resolved /\ withoutHeader
     /\ Len(input[1]) # Len(NonSkipped(structType)))
    => /\ pc = "decoded"
       /\ decErr.type = "error"
       /\ items = <<>>

\* the header row of a struct type: the tag, else the name, of each
\* non-skipped field
ExpectedHeader(st) ==
    [k \in 1..Len(NonSkipped(st)) |->
        LET sf == Field(st, NonSkipped(st)[k])
        IN  IF sf.Tag = <<>> THEN sf.Name ELSE sf.Tag]

\* the text that stands for a field's value
ValueText(sf, v) ==
    CASE sf.Kind = "YesNoBool" -> IF v.nil \/ v.n = 0 THEN tno ELSE tyes
      [] sf.Kind # "YesNoBool" /\ v.nil -> <<>>
      [] sf.Kind = "string" /\ ~v.nil -> v.s
      [] sf.Kind \in {"int", "uint"} /\ ~v.nil -> Itoa(v.n)
      [] sf.Kind = "bool" /\ ~v.nil -> IF v.n = 1 THEN ttrue ELSE tfalse
      [] sf.Kind = "float" /\ ~v.nil -> FormatFloat(v.n, v.e)
      [] OTHER -> <<"?">>

\* the records Encode wrote for the elements of the slice
WrittenRows == IF withoutHeaderRow THEN written ELSE Tail(written)

\* C8: with the header enabled Encode writes the column names of the
\* non-skipped fields, in declaration order, before the data rows, and every
\* data row lists the values of those fields in that order
C8_HeaderAndRowsInFieldOrder ==
    (pc = "encoded" /\ ~withoutHeaderRow) =>
        /\ Len(written) = 1 + Len(items)
        /\ written[1] = ExpectedHeader(structType)
        /\ \A k \in 1..Len(items) :
              /\ Len(written[k + 1]) = Len(NonSkipped(structType))
              /\ \A j \in 1..Len(NonSkipped(structType)) :
                    written[k + 1][j] =
                        ValueText(Field(structType, NonSkipped(structType)[j]),
                                  items[k][NonSkipped(structType)[j]])

\* the position of field i among the non-skipped fields
ColumnOf(st, i) == CHOOSE j \in 1..Len(NonSkipped(st)) : NonSkipped(st)[j] = i

\* C9: a field whose type has the hooks is decoded and encoded by them: yes and
\* no become true and false, no error comes of them, and Encode writes them
\* back as yes and no
C9_HookRoundTrip ==
    Resolved =>
        \A k \in 1..Len(Rows) : \A j \in 1..Len(fis) :
            LET fi   == fis[j]
                sf   == Field(structType, fi.FieldIndex)
                text == Rows[k][fi.ColIndex + 1]
            IN  (/\ ~fi.SkipField
                 /\ sf.Kind = "YesNoBool"
                 /\ fi.ColIndex < Len(Rows[k])
                 /\ text \in {tyes, tno})
                =>
                /\ k <= Len(items)
                /\ items[k][fi.FieldIndex] = Val(FALSE, IF text = tyes THEN 1 ELSE 0, 0, <<>>)
                /\ pc = "encoded" =>
                      WrittenRows[k][ColumnOf(structType, fi.FieldIndex)] = text

\* C9 witness: yes and no were decoded into a *YesNoBool field and encoded
C9_Witness ==
    /\ pc = "encoded"
    /\ structType = T_PtrYesNo
    /\ Rows = <<(<<tyes>>), <<tno>>>>
    /\ Bound(0)
    /\ WrittenRows = Rows

\* the struct type has only string, integer, float and bool fields, none a
\* pointer, none with a hook, none skipped
PlainFields(st) ==
    \A i \in 1..Len(st) :
        /\ st[i].Kind \in {"string", "int", "uint", "float", "bool"}
        /\ ~st[i].Ptr
        /\ st[i].Tag # tSkip

\* the input was decoded under the header row Encode writes for the type
RoundTripShape ==
    /\ pc = "encoded"
    /\ ~withoutHeader
    /\ PlainFields(structType)
    /\ input # <<>>
    /\ input[1] = ExpectedHeader(structType)

\* a natural number written without sign or leading zeros
CanonicalNat(s) == s # <<>> /\ AllDigits(s) /\ (Len(s) > 1 => s[1] # "0")

\* the text is one Encode writes for a field of this kind
Canonical(sf, text) ==
    CASE sf.Kind = "string" -> TRUE
      [] sf.Kind = "uint" -> CanonicalNat(text)
      [] sf.Kind = "int" ->
            \/ CanonicalNat(text)
            \/ Len(text) > 1 /\ text[1] = "-" /\ CanonicalNat(Tail(text)) /\ text[2] # "0"
      [] sf.Kind = "bool" -> text \in {ttrue, tfalse}
      [] sf.Kind = "float" ->
            LET body == IF text # <<>> /\ text[1] = "-" THEN Tail(text) ELSE text
                pts  == {i \in 1..Len(body) : body[i] = "."}
            IN  IF pts = {} THEN CanonicalNat(body) /\ (body = <<"0">> => body = text)
                ELSE /\ Cardinality(pts) = 1
                     /\ LET p == CHOOSE i \in pts : TRUE
                        IN  /\ CanonicalNat(SubSeq(body, 1, p - 1))
                            /\ p < Len(body)
                            /\ AllDigits(SubSeq(body, p + 1, Len(body)))
                            /\ body[Len(body)] # "0"
      [] OTHER -> FALSE

ExampleDecoded ==
    /\ pc = "decoded" /\ ~withoutHeader
    /\ structType = T_Item
    /\ input = <<(<<tfirst, tsecond, tthird>>), <<ta, t1, <<>>>>, <<tb, t2, tf>>>>

\* the record {First, Second, Third}, Third nil when isNil
ItemRecord(first, second, isNil, third) ==
    0 :> Val(FALSE, 0, 0, first) @@ 1 :> Val(FALSE, second, 0, <<>>)
      @@ 2 :> Val(isNil, third, 0, <<>>)

\* C11 as claimed: the example decodes to {a, 1, unset} and {b, 2, true}
C11_ExampleThirdTrue ==
    ExampleDecoded =>
        /\ decErr = NoErr
        /\ items = <<ItemRecord(ta, 1, TRUE, 0), ItemRecord(tb, 2, FALSE, 1)>>

\* C11: the example decodes without error to exactly two records,
\* {a, 1, unset} and {b, 2, false}: the text f is the boolean false
C11_ExampleThirdFalse ==
    ExampleDecoded =>
        /\ decErr = NoErr
        /\ items = <<ItemRecord(ta, 1, TRUE, 0), ItemRecord(tb, 2, FALSE, 0)>>

\* C11 witness: the example was decoded to the end and gave two records
C11_Witness == ExampleDecoded /\ Len(items) = 2 /\ ~items[2][2].nil

\* C12: the text Encode writes for a pointer field that is nil is empty,
\* unless the field's type has the MarshalCSV hook: then it is what the hook
\* returns for a nil receiver, no
C12_NilPointerEncodesEmpty ==
    pc = "encoded" =>
        \A k \in 1..Len(items) : \A j \in 1..Len(NonSkipped(structType)) :
            LET i  == NonSkipped(structType)[j]
                sf == Field(structType, i)
            IN  (sf.Ptr /\ items[k][i].nil) =>
                    /\ j <= Len(WrittenRows[k])
                    /\ WrittenRows[k][j] = IF sf.Kind = "YesNoBool" THEN tno ELSE <<>>

\* C12 witness: a slice of struct{First *bool} holding true and nil was
\* written as true and the empty text
C12_Witness ==
    /\ pc = "encoded"
    /\ structType = T_PtrBool
    /\ Len(items) = 2 /\ ~items[1][0].nil /\ items[2][0].nil
    /\ WrittenRows = <<(<<ttrue>>), <<(<<>>)>>>>

\* the base-10 text of an integer value
DecimalOf(v) == IF v.big # <<>> THEN v.big ELSE Itoa(v.n)

\* C13: the text Encode writes for an integer field is the base-10 text of
\* its value, and a text the conversion of that field reads back
C13_IntegerTextExact ==
    pc = "encoded" =>
        \A k \in 1..Len(items) : \A j \in 1..Len(NonSkipped(structType)) :
            LET i  == NonSkipped(structType)[j]
                sf == Field(structType, i)
            IN  (sf.Kind \in {"int", "uint"} /\ ~items[k][i].nil) =>
                    /\ j <= Len(WrittenRows[k])
                    /\ WrittenRows[k][j] = DecimalOf(items[k][i])
                    /\ sf.Kind = "uint" => ParseUint(WrittenRows[k][j]).err = <<>>

\* the header has a column of that name
InHeader(header, name) == \E c \in 1..Len(header) : header[c] = name

\* the index of the last column of that name
LastColumn(header, name) ==
    (CHOOSE c \in 1..Len(header) :
        header[c] = name /\ \A d \in (c + 1)..Len(header) : header[d] # name) - 1

\* field index i is bound, and to column c
BoundTo(i, c) ==
    \E k \in 1..Len(fis) :
        fis[k].FieldIndex = i /\ ~fis[k].SkipField /\ fis[k].ColIndex = c

\* the name a field claims, its tag or else its own name, after a retry with
\* the first character lower-cased for tagged and untagged fields alike
RetriedName(sf, header) ==
    LET claimed == IF sf.Tag # <<>> THEN sf.Tag ELSE sf.Name
    IN  IF InHeader(header, claimed) THEN claimed ELSE lowerName(claimed)

\* the fields that share their retried name with another field
RetriedColliding(st, header) ==
    {i \in 0..(NumField(st) - 1) :
        \E j \in 0..(NumField(st) - 1) :
            /\ j # i
            /\ Field(st, j).Tag # tSkip
            /\ RetriedName(Field(st, j), header) = RetriedName(Field(st, i), header)}

\* C14 as stated: in header mode a field whose claimed name is absent from the
\* header is bound to the column of that name with its first character
\* lower-cased, whether the name is the field's own or an override, and an
\* exact match is preferred
C14_LowerCaseRetryForAll ==
    (Resolved /\ ~withoutHeader) =>
        \A i \in 0..(NumField(structType) - 1) :
            LET sf == Field(structType, i)
                n  == RetriedName(sf, input[1])
            IN  (/\ sf.Tag # tSkip
                 /\ i \notin RetriedColliding(structType, input[1])
                 /\ InHeader(input[1], n)) =>
                    BoundTo(i, LastColumn(input[1], n))

\* C14 amended: in header mode an untagged field that shares its column name
\* with no other field is bound to the column of its own name, else to the
\* column of its name with the first character lower-cased, else not at all;
\* a field with an override name is bound to the column of exactly that name
\* or not at all
C14_LowerCaseRetryUntaggedOnly ==
    (Resolved /\ ~withoutHeader) =>
        \A i \in 0..(NumField(structType) - 1) :
            LET sf == Field(structType, i)
                h  == input[1]
            IN  (sf.Tag # tSkip /\ i \notin Colliding(structType, h)) =>
                    IF sf.Tag = <<>> THEN
                        IF InHeader(h, sf.Name) THEN BoundTo(i, LastColumn(h, sf.Name))
                        ELSE IF InHeader(h, lowerName(sf.Name))
                        THEN BoundTo(i, LastColumn(h, lowerName(sf.Name)))
                        ELSE ~Bound(i)
                    ELSE IF InHeader(h, sf.Tag) THEN BoundTo(i, LastColumn(h, sf.Tag))
                         ELSE ~Bound(i)

\* C14 witness: the header holds the override name of the only field with its
\* first character lower-cased, and the decoded record keeps the zero value
C14_Witness ==
    /\ pc = "decoded" /\ ~withoutHeader /\ decErr = NoErr
    /\ structType = T_TagUpper
    /\ input = <<(<<tthird, tthird>>), <<ta, ta>>>>
    /\ fis = <<>>
    /\ items = <<ZeroStruct(T_TagUpper)>>

\* the header has no column for the field: neither its own name nor its
\* lower-cased name for an untagged field, not its override name for a tagged
\* one
NotFound(sf, header) ==
    IF sf.Tag = <<>>
    THEN ~InHeader(header, sf.Name) /\ ~InHeader(header, lowerName(sf.Name))
    ELSE ~InHeader(header, sf.Tag)

\* the fields C15 is about: marked skip, or in header mode without a column
Unmatched(st) ==
    {i \in 0..(NumField(st) - 1) :
        \/ Field(st, i).Tag = tSkip
        \/ ~withoutHeader /\ NotFound(Field(st, i), input[1])}

\* C15: a field marked skip, or whose column name the header lacks, has no
\* binding; it is zero in every decoded record, an error Decode returns comes
\* from the binding of another field, and in header mode every other field
\* that has a column of its own is bound to it and holds its cell's value
C15_UnmatchedFieldsKeepZero ==
    Resolved =>
        \A i \in Unmatched(structType) :
            /\ ~Bound(i)
            /\ \A k \in 1..Len(items) : items[k][i] = ZeroVal(Field(structType, i))
            /\ decErr.type = "UnmarhsalError" =>
                  \E b \in 1..Len(fis) :
                      /\ fis[b].ColName = decErr.Column
                      /\ fis[b].FieldIndex # i
                      /\ ~fis[b].SkipField
            /\ ~withoutHeader =>
                  \A j \in (0..(NumField(structType) - 1)) \ Unmatched(structType) :
                      LET sf  == Field(structType, j)
                          col == LastColumn(input[1], ResolvedName(sf, input[1]))
                      IN  j \notin Colliding(structType, input[1]) =>
                            /\ BoundTo(j, col)
                            /\ \A k \in 1..Len(items) :
                                  /\ sf.Kind = "string" =>
                                        items[k][j].s = Rows[k][col + 1]
                                  /\ (sf.Kind = "int" /\ Rows[k][col + 1] = t1) =>
                                        items[k][j].n = 1

\* C15 witness: a record decoded from a row with text in the column of the
\* skipped field and in the column of the other field
C15_Witness ==
    /\ pc = "decoded" /\ ~withoutHeader /\ decErr = NoErr
    /\ structType = T_Skip
    /\ input = <<(<<tFirst, tSecond>>), <<ta, t1>>>>
    /\ Unmatched(structType) = {0}
    /\ items[1][0] = ZeroVal(Field(T_Skip, 0))
    /\ items[1][1].n = 1

\* the layout C16 gives a date/time field: its csvplusFormat override, RFC3339
\* without one, the layouts the two aliases name
LayoutOf(sf) ==
    CASE sf.Format = <<>> -> RFC3339
      [] sf.Format = tagRFC3339 -> RFC3339
      [] sf.Format = tagRFC3339Nano -> RFC3339Nano
      [] OTHER -> sf.Format

\* a record type of one date/time field
TimeType(st) == Len(st) = 1 /\ st[1].Kind = "time"

\* Decode read rows into a slice of such a type to the end without error and
\* Encode wrote the slice
TimeRoundTrip ==
    /\ pc = "encoded" /\ input # <<>> /\ decErr = NoErr
    /\ TimeType(structType)

\* the text is spelled as Format writes a time under the layout: no
\* fractional seconds the layout lacks, no trailing zero in the fraction, Z
\* for the offset zero
InLayoutForm(layout, text) ==
    LET n      == Len(text)
        offset == IF n >= 6 THEN SubSeq(text, n - 5, n) ELSE <<>>
        zoned  == n >= 6 /\ offset[1] \in {"+", "-"} /\ offset[4] = ":"
        last   == IF zoned THEN n - 6 ELSE n - 1
    IN  /\ text # <<>>
        /\ offset \notin {<<"+", "0", "0", ":", "0", "0">>, <<"-", "0", "0", ":", "0", "0">>}
        /\ layout = RFC3339 => \A p \in 1..n : text[p] # "."
        /\ layout = RFC3339Nano =>
              ~((\E p \in 1..n : text[p] = ".") /\ text[last] = "0")

\* the bindings of Decode and of Encode carry the layout of the field, and each
\* text read was parsed and the value written with it
TimeLayoutUsed ==
    /\ (Resolved /\ TimeType(structType)) =>
          /\ \A b \in 1..Len(fis) : fis[b].Format = LayoutOf(structType[1])
          /\ pc = "encoded" =>
                encRegister[structType].fields[0].Format = LayoutOf(structType[1])
    /\ TimeRoundTrip =>
          \A k \in 1..Len(items) :
              Rows[k][1] # <<>> =>
                  /\ items[k][0].t = Parse(LayoutOf(structType[1]), Rows[k][1]).t
                  /\ WrittenRows[k][1] = TimeFormat(items[k][0].t, LayoutOf(structType[1]))

\* C16 as stated: a date/time field is parsed and formatted with the layout
\* of its binding, and every text that was decoded is written back exactly
C16_TimeRoundTripAnyText ==
    /\ TimeLayoutUsed
    /\ TimeRoundTrip =>
          \A k \in 1..Len(items) : Rows[k][1] # <<>> => WrittenRows[k] = Rows[k]

\* C16 amended: a date/time field is parsed and formatted with the layout of
\* its binding, and a decoded text spelled as Format writes a time under that
\* layout is written back exactly
C16_TimeRoundTripLayoutForm ==
    /\ TimeLayoutUsed
    /\ TimeRoundTrip =>
          \A k \in 1..Len(items) :
              InLayoutForm(LayoutOf(structType[1]), Rows[k][1]) =>
                  WrittenRows[k] = Rows[k]

\* C16 witness: layout 2006-01, text 2000-01 decoded and written back
C16_Witness ==
    /\ TimeRoundTrip /\ ~withoutHeader /\ ~withoutHeaderRow
    /\ structType = T_TimeMonth
    /\ input = <<(<<tFirst>>), <<t2000_01>>>>
    /\ items[1][0].t = <<2000, 1, 1, 0, 0, 0, 0, 0>>
    /\ written = <<(<<tFirst>>), <<t2000_01>>>>

\* C17: a call of Decode or Encode with a v that is no pointer, a pointer to
\* no slice or a pointer to a slice of no structs ends by returning an error,
\* without a panic, with no row read and no row written
C17_ShapeErrorsReturned ==
    pc \in {"returned", "panicked"} =>
        /\ pc = "returned"
        /\ decErr.type = "error" \/ encErr.type = "error"
        /\ input = <<>>
        /\ written = <<>>

\* C18: when the conversion of a field of a data row failed, Decode has
\* returned that error, reads no further row, and the caller's slice holds no
\* record: neither the record of the failing row nor those of the rows before
C18_NoPartialResult ==
    decErr.type = "UnmarhsalError" =>
        /\ pc = "decoded"
        /\ decErr.Row = RowOrdinal(Len(Rows))
        /\ items = <<>>

\* Decode has read the header or the first row into a slice of a type of one
\* date/time field
TimeResolved == pc \in {"decoding", "decoded"} /\ input # <<>> /\ TimeType(structType)

\* C19 as stated: a layout that cannot parse the field's text is reported when
\* the header or the first row is processed, before any row uses the field
C19_LayoutErrorAtResolution ==
    (TimeResolved /\ structType = T_TimeInvalid) => decErr # NoErr

\* C19 amended: resolution reports nothing; Decode returns an error for a
\* date/time field exactly when it reaches a row whose text for the field is
\* not empty and does not parse under the layout, as the conversion error of
\* that row, and the rows before it were empty or parsed
C19_LayoutErrorAtFirstUse ==
    TimeResolved =>
        LET layout     == LayoutOf(structType[1])
            Fails(txt) == txt # <<>> /\ Parse(layout, txt).err # <<>>
        IN  /\ Rows = <<>> => decErr = NoErr
            /\ decErr = NoErr => \A k \in 1..Len(Rows) : ~Fails(Rows[k][1])
            /\ decErr # NoErr =>
                  /\ decErr.type = "UnmarhsalError"
                  /\ Fails(Rows[Len(Rows)][1])
                  /\ decErr.Value = Rows[Len(Rows)][1]
                  /\ decErr.Row = RowOrdinal(Len(Rows))
                  /\ \A k \in 1..(Len(Rows) - 1) : ~Fails(Rows[k][1])

\* C19 witness: under the layout "invalid format" the header and a row with
\* an empty text passed without error, and the next row failed on its text
C19_Witness ==
    /\ pc = "decoded" /\ ~withoutHeader
    /\ structType = T_TimeInvalid
    /\ input = <<(<<tFirst>>), <<(<<>>)>>, <<t2000_01>>>>
    /\ items = <<ZeroStruct(T_TimeInvalid)>>
    /\ decErr.type = "UnmarhsalError" /\ decErr.Row = 2 /\ decErr.Value = t2000_01

\* C20: with and without a header, no two bindings of fields that are not
\* skipped have the same ColIndex
C20_ColIndexUnique ==
    Resolved =>
        \A j, k \in 1..Len(fis) :
            (j # k /\ ~fis[j].SkipField /\ ~fis[k].SkipField) =>
                fis[j].ColIndex # fis[k].ColIndex

\* C21: while Decode decodes the rows of an input, the bindings it uses are
\* those getFieldInfo resolves from the first row of that input, whatever was
\* decoded before
C21_BindingsFromCurrentHeader ==
    (pc \in {"decoding", "decoded"} /\ input # <<>>) =>
        fis \in getFieldInfo(structType, withoutHeader, input[1])

\* C22: a step of a call of Register for a type leaves the entry of every
\* type the register holds as it is, that of the type itself too, and adds at
\* most the entry of that type, the binding set built from its fields
C22_RegisterIdempotent ==
    [][/\ \A t \in DOMAIN encRegister :
             t \in DOMAIN encRegister' /\ encRegister'[t] = encRegister[t]
       /\ \A t \in (DOMAIN encRegister') \ (DOMAIN encRegister) :
             t = structType' /\ encRegister'[t] = newStructInfo(t)]_vars

\* C22 witness: Encode ran twice for one type, after another type was
\* registered, and the register holds the entries of both
C22_Witness ==
    /\ pc = "encoded" /\ ~withoutHeaderRow
    /\ structType = T_PtrBool
    /\ DOMAIN encRegister = {T_PtrBool, T_Skip}
    /\ encRegister[T_Skip] = newStructInfo(T_Skip)
    /\ encRegister[T_PtrBool] = newStructInfo(T_PtrBool)
    /\ written = <<(<<tFirst>>), <<tFirst>>>>

\* a record that holds column names; no value of the slices encoded is
\* written as the name of a field
IsHeaderRow(r) == r # <<>> /\ r[1] \in {tFirst, tSecond}

\* the header rows among the records written
HeaderRows == {k \in 1..Len(written) : IsHeaderRow(written[k])}

\* C24 as stated: with the header enabled, whatever number of Encode calls
\* the Encoder has served, its output holds one header row, the first record
C24_HeaderWrittenOnce ==
    (pc = "encoded" /\ ~withoutHeaderRow) => HeaderRows = {1}

\* a record is too short for the bindings: some binding that is used reads a
\* column the record does not have
TooShort(fs, record) ==
    \E k \in 1..Len(fs) :
        /\ ~fs[k].SkipField /\ fs[k].ColName # <<>>
        /\ Len(record) - 1 < fs[k].ColIndex

Convertible(sf) ==
    ImplementsUnmarshaler(sf) \/ Kind(sf) \in {"string", "int", "uint", "float", "bool", "time"}

\* binding k of fs is the first one in use, its field is of no convertible
\* kind and the record holds a non-empty text in its column
UnsupportedFirst(st, fs, record, k) ==
    /\ \A j \in 1..(k - 1) : fs[j].SkipField \/ fs[j].ColName = <<>>
    /\ ~fs[k].SkipField /\ fs[k].ColName # <<>>
    /\ ~Convertible(Field(st, fs[k].FieldIndex))
    /\ fs[k].ColIndex < Len(record)
    /\ record[fs[k].ColIndex + 1] # <<>>

C27_RowsAsWideAsHeader ==
    (pc = "encoded" /\ encErr = NoErr) =>
        \A k \in 1..Len(WrittenRows) :
            Len(WrittenRows[k]) = Len(newStructInfo(structType).headerRow)

\* the records a Decoder made for the input alone decodes from its data rows,
\* given the bindings fs resolved from its header row
FreshRecords(fs) ==
    [k \in 1..(Len(input) - 1) |->
        unmarshalRecord(structType, k, input[k + 1], fs).s]

\* C28: a Decode call that returned without error on an input with a header
\* row, on a Decoder used before or not, has appended the records a new
\* Decoder decodes from that input: the first row is taken as the header, and
\* there is one record per further row, converted with the bindings resolved
\* from that header
C28_ReusedDecoderAsNew ==
    (pc = "decoded" /\ decErr = NoErr /\ ~withoutHeader /\ input # <<>>) =>
        /\ Len(items) >= Len(input) - 1
        /\ \E fs \in getFieldInfo(structType, FALSE, input[1]) :
              SubSeq(items, Len(items) - Len(input) + 2, Len(items)) = FreshRecords(fs)

\* C29: Unmarshal of the data Marshal wrote for a slice returns without error
\* and gives the records of the slice: every field has the value it had, a
\* nil pointer is nil and a pointer that was not nil is not
C29_DecodeOfEncode ==
    [][(pc = "encoded" /\ pc' = "unmarshaled")
        => (decErr' = NoErr /\ items' = items)]_vars

\* C30: a pass of Decode's loop over the header row of an input appends
\* nothing; a pass over any other row, and over the first row without a
\* header, appends the record of that row after the elements the slice
\* holds, or, when the row fails, appends nothing
C30_OneRecordPerDataRow ==
    [][(pc = "decoding" /\ input' # input)
        => IF (input = <<>> /\ ~withoutHeader) \/ decErr' # NoErr
           THEN items' = items
           ELSE /\ Len(items') = Len(items) + 1
                /\ SubSeq(items', 1, Len(items)) = items
                /\ \E fs \in getFieldInfo(structType, withoutHeader, input'[1]) :
                      items'[Len(items')] =
                          unmarshalRecord(structType, Len(input), input'[Len(input')], fs).s]_vars

\* C23: two goroutines that call Encode at once for a struct type the shared
\* register does not hold never end in a fatal error of the runtime; once
\* both have returned the register holds for the type the structInfo one
\* Register call stores, and every header row written is that of the type
C23_ConcurrentRegisterSafe ==
    /\ pc # "fatal"
    /\ pc = Both("done", "done") =>
          /\ structType \in DOMAIN encRegister
          /\ encRegister[structType] = newStructInfo(structType)
          /\ \A k \in 1..Len(written) :
                written[k] = newStructInfo(structType).headerRow

====
